---- MODULE Spec2Model ----
(***************************************************************************)
(* A model of whatsapp-to-html.py: the duplicate-timestamp resolver        *)
(* (incrementTimeStamp, uniquify_chat_headers) and the message assembler   *)
(* (parse_chat_line_by_line).                                              *)
(*                                                                         *)
(* Text is modelled character by character: a string is a sequence of      *)
(* one-character strings.  Three characters that have no printable form    *)
(* are written as tokens: "<LRM>" is U+200E, "<NBSP>" is U+00A0 and         *)
(* "<NNBSP>" is U+202F.  A regular expression of the source is translated   *)
(* piece by piece into operators on sets of match states (a position and    *)
(* the groups captured so far), so that a pattern matches exactly when the  *)
(* set of final match states is not empty.                                  *)
(***************************************************************************)
EXTENDS Integers, Sequences, FiniteSets, TLC

\* ------------------------------------------------------------------ text

NL == "\n"
LRM == "<LRM>"
NBSP == "<NBSP>"
NNBSP == "<NNBSP>"

DigitChars == <<"0", "1", "2", "3", "4", "5", "6", "7", "8", "9">>
Digit == {DigitChars[i] : i \in 1..10}
Digit19 == Digit \ {"0"}

\* str.isspace / the class \s of a str pattern, over the model's alphabet
Whitespace == {" ", NL, NBSP, NNBSP}

DigitVal(c) == (CHOOSE i \in 1..10 : DigitChars[i] = c) - 1

RECURSIVE NumVal(_)
\* int(text) of a run of digits
NumVal(ds) ==
  IF ds = <<>> THEN 0
  ELSE 10 * NumVal(SubSeq(ds, 1, Len(ds) - 1)) + DigitVal(ds[Len(ds)])

\* two decimal digits, zero-padded (%y, %M, %S and the f-string's {i:02d})
Pad2(n) == <<DigitChars[((n \div 10) % 10) + 1], DigitChars[(n % 10) + 1]>>

\* decimal digits without leading zeros, for 1..99 (%-m, %-d, %-I)
NoPad(n) == IF n < 10 THEN <<DigitChars[n + 1]>> ELSE Pad2(n)

MinOf(S) == CHOOSE x \in S : \A y \in S : x <= y
MaxOf(S) == CHOOSE x \in S : \A y \in S : x >= y

\* s[a:b] of Python: the characters after the first a up to the first b
Slice(s, a, b) == SubSeq(s, a + 1, b)

\* needle occurs in s starting right after position p
OccursAt(s, needle, p) ==
  /\ p + Len(needle) <= Len(s)
  /\ SubSeq(s, p + 1, p + Len(needle)) = needle

\* str.find: the 0-based offset of the first occurrence from offset `from`, or -1
FindFrom(s, needle, from) ==
  LET hits == {p \in from..Len(s) : OccursAt(s, needle, p)}
  IN IF hits = {} THEN -1 ELSE MinOf(hits)

Find(s, needle) == FindFrom(s, needle, 0)

\* the `in` operator on strings
Contains(s, needle) == Find(s, needle) >= 0

\* str.strip()
Strip(s) ==
  LET keep == {i \in 1..Len(s) : s[i] \notin Whitespace}
  IN IF keep = {} THEN <<>>
     ELSE SubSeq(s, CHOOSE i \in keep : \A j \in 1..(i - 1) : s[j] \in Whitespace,
                 CHOOSE i \in keep : \A j \in (i + 1)..Len(s) : s[j] \in Whitespace)

RECURSIVE ReplaceFrom(_, _, _, _, _)
\* str.replace(old, new, count): left to right, non-overlapping, one pass;
\* count < 0 replaces every occurrence
ReplaceFrom(s, old, new, count, from) ==
  LET p == FindFrom(s, old, from)
  IN IF count = 0 \/ p < 0 \/ old = <<>> THEN s
     ELSE ReplaceFrom(SubSeq(s, 1, p) \o new \o SubSeq(s, p + Len(old) + 1, Len(s)),
                      old, new, count - 1, p + Len(new))

Replace(s, old, new) == ReplaceFrom(s, old, new, -1, 0)
ReplaceFirst(s, old, new) == ReplaceFrom(s, old, new, 1, 0)

RECURSIVE JoinWith(_, _)
\* sep.join(parts)
JoinWith(parts, sep) ==
  IF parts = <<>> THEN <<>>
  ELSE IF Len(parts) = 1 THEN parts[1]
  ELSE parts[1] \o sep \o JoinWith(Tail(parts), sep)

RECURSIVE SplitLines(_)
\* str.splitlines(): no empty last line after a final line break
SplitLines(s) ==
  IF s = <<>> THEN <<>>
  ELSE LET p == Find(s, <<NL>>)
       IN IF p < 0 THEN <<s>>
          ELSE <<SubSeq(s, 1, p)>> \o SplitLines(SubSeq(s, p + 2, Len(s)))

\* ----------------------------------------------------- regular expressions
\* A match state is [pos |-> characters consumed, cap |-> captured groups].

MStart(p) == {[pos |-> p, cap |-> <<>>]}

\* a literal
MLit(s, M, lit) ==
  {[m EXCEPT !.pos = m.pos + Len(lit)] : m \in {x \in M : OccursAt(s, lit, x.pos)}}

\* cls{lo,hi}
MRep(s, M, cls, lo, hi) ==
  UNION {{[m EXCEPT !.pos = q] :
            q \in {r \in (m.pos + lo)..(IF m.pos + hi < Len(s) THEN m.pos + hi ELSE Len(s)) :
                     \A i \in (m.pos + 1)..r : s[i] \in cls}} : m \in M}

\* (cls{lo,hi}) captured
MCapRep(s, M, cls, lo, hi) ==
  UNION {{[pos |-> q, cap |-> Append(m.cap, SubSeq(s, m.pos + 1, q))] :
            q \in {r \in (m.pos + lo)..(IF m.pos + hi < Len(s) THEN m.pos + hi ELSE Len(s)) :
                     \A i \in (m.pos + 1)..r : s[i] \in cls}} : m \in M}

\* [^c]+ captured: every character but c, to the end of the text at most
MCapNot(s, M, c) ==
  UNION {{[pos |-> q, cap |-> Append(m.cap, SubSeq(s, m.pos + 1, q))] :
            q \in {r \in (m.pos + 1)..Len(s) :
                     \A i \in (m.pos + 1)..r : s[i] # c}} : m \in M}

\* ------------------------------------------------------------- timestamps
\* datetime.strptime compiles a format into a regular expression (matched
\* ignoring case, white space in the format standing for \s+) and then
\* builds the datetime, which validates the calendar fields.  The language
\* of each directive follows.

\* %m and %I: 1[0-2]|0[1-9]|[1-9]
IsMonthText(t) ==
  \/ Len(t) = 2 /\ t[1] = "1" /\ t[2] \in {"0", "1", "2"}
  \/ Len(t) = 2 /\ t[1] = "0" /\ t[2] \in Digit19
  \/ Len(t) = 1 /\ t[1] \in Digit19

\* %d: 3[0-1]|[1-2]\d|0[1-9]|[1-9]| [1-9]
IsDayText(t) ==
  \/ Len(t) = 2 /\ t[1] = "3" /\ t[2] \in {"0", "1"}
  \/ Len(t) = 2 /\ t[1] \in {"1", "2"} /\ t[2] \in Digit
  \/ Len(t) = 2 /\ t[1] = "0" /\ t[2] \in Digit19
  \/ Len(t) = 1 /\ t[1] \in Digit19
  \/ Len(t) = 2 /\ t[1] = " " /\ t[2] \in Digit19

\* %M: [0-5]\d|\d
IsMinuteText(t) ==
  \/ Len(t) = 2 /\ t[1] \in {"0", "1", "2", "3", "4", "5"} /\ t[2] \in Digit
  \/ Len(t) = 1 /\ t[1] \in Digit

\* %S: 6[0-1]|[0-5]\d|\d
IsSecondText(t) ==
  \/ Len(t) = 2 /\ t[1] = "6" /\ t[2] \in {"0", "1"}
  \/ IsMinuteText(t)

\* %y: \d\d and %Y: \d\d\d\d
IsYearText(t) == \A i \in 1..Len(t) : t[i] \in Digit

\* %p: am|pm, ignoring case
IsAmPmText(t) == Len(t) = 2 /\ t[1] \in {"a", "A", "p", "P"} /\ t[2] \in {"m", "M"}

\* the language of a directive
InLang(directive, t) ==
  CASE directive = "m" -> IsMonthText(t)
    [] directive = "d" -> IsDayText(t)
    [] directive = "y" -> IsYearText(t)
    [] directive = "I" -> IsMonthText(t)
    [] directive = "M" -> IsMinuteText(t)
    [] directive = "S" -> IsSecondText(t)
    [] directive = "p" -> IsAmPmText(t)

\* a directive's group: a captured alternation of texts of the widths given
MCapAlt(s, M, directive, widths) ==
  UNION {{[pos |-> m.pos + w, cap |-> Append(m.cap, SubSeq(s, m.pos + 1, m.pos + w))] :
            w \in {x \in widths : m.pos + x <= Len(s)
                                  /\ InLang(directive, SubSeq(s, m.pos + 1, m.pos + x))}} :
         m \in M}

\* the regular expression of "%m/%d/%y, %I:%M:%S %p" (yearWidth 2) and of
\* "%m/%d/%Y, %I:%M:%S %p" (yearWidth 4), matched at the start of ts
StrptimeMatch(ts, yearWidth) ==
  LET m1 == MCapAlt(ts, MStart(0), "m", {1, 2})
      m2 == MCapAlt(ts, MLit(ts, m1, <<"/">>), "d", {1, 2})
      m3 == MCapAlt(ts, MLit(ts, m2, <<"/">>), "y", {yearWidth})
      m4 == MRep(ts, MLit(ts, m3, <<",">>), Whitespace, 1, Len(ts))
      m5 == MCapAlt(ts, m4, "I", {1, 2})
      m6 == MCapAlt(ts, MLit(ts, m5, <<":">>), "M", {1, 2})
      m7 == MCapAlt(ts, MLit(ts, m6, <<":">>), "S", {1, 2})
      m8 == MRep(ts, m7, Whitespace, 1, Len(ts))
  IN MCapAlt(ts, m8, "p", {2})

IsLeap(y) == (y % 4 = 0 /\ y % 100 # 0) \/ y % 400 = 0

DaysInMonth(y, m) ==
  IF m = 2 THEN (IF IsLeap(y) THEN 29 ELSE 28)
  ELSE IF m \in {4, 6, 9, 11} THEN 30 ELSE 31

NoDate == [ok |-> FALSE]

\* the datetime of a match m of the format's expression on a text of len
\* characters: NoDate for unconverted data or a field out of range
StrptimeFields(m, yearWidth, len) ==
  LET yy == NumVal(m.cap[3])
      year == IF yearWidth = 4 THEN yy
              ELSE IF yy <= 68 THEN 2000 + yy ELSE 1900 + yy
      h12 == NumVal(m.cap[4])
      hour == IF m.cap[7][1] \in {"p", "P"}
              THEN (IF h12 = 12 THEN 12 ELSE h12 + 12)
              ELSE (IF h12 = 12 THEN 0 ELSE h12)
  IN IF \/ m.pos # len
        \/ year < 1
        \/ NumVal(Strip(m.cap[2])) > DaysInMonth(year, NumVal(m.cap[1]))
        \/ NumVal(m.cap[6]) > 59
     THEN NoDate
     ELSE [ok |-> TRUE, year |-> year, month |-> NumVal(m.cap[1]),
           day |-> NumVal(Strip(m.cap[2])), hour |-> hour,
           minute |-> NumVal(m.cap[5]), second |-> NumVal(m.cap[6])]

\* the datetime of the set M of matches: NoDate when there is none
StrptimeOf(M, yearWidth, len) ==
  IF M = {} THEN NoDate ELSE StrptimeFields(CHOOSE x \in M : TRUE, yearWidth, len)

\* datetime.datetime.strptime(ts, format): the datetime, or NoDate for a
\* ValueError (no match, unconverted data, or a field out of range)
Strptime(ts, yearWidth) == StrptimeOf(StrptimeMatch(ts, yearWidth), yearWidth, Len(ts))

RECURSIVE AddDays(_, _)
\* the date part of dt + timedelta(days = n)
AddDays(dt, n) ==
  IF n = 0 THEN dt
  ELSE IF dt.day < DaysInMonth(dt.year, dt.month)
       THEN AddDays([dt EXCEPT !.day = dt.day + 1], n - 1)
  ELSE IF dt.month < 12
       THEN AddDays([dt EXCEPT !.day = 1, !.month = dt.month + 1], n - 1)
  ELSE AddDays([dt EXCEPT !.day = 1, !.month = 1, !.year = dt.year + 1], n - 1)

\* the time of day set from a count of seconds since midnight
WithTimeOfDay(moved, rest) ==
  IF moved.year > 9999 THEN NoDate
  ELSE [moved EXCEPT !.hour = rest \div 3600,
                     !.minute = (rest % 3600) \div 60,
                     !.second = rest % 60]

\* the seconds since midnight of dt
SecondOfDay(dt) == dt.hour * 3600 + dt.minute * 60 + dt.second

\* dt + datetime.timedelta(seconds = n), n >= 0; past year 9999 the sum is
\* an OverflowError, shown as NoDate
AddSeconds(dt, n) ==
  WithTimeOfDay(AddDays(dt, (SecondOfDay(dt) + n) \div 86400), (SecondOfDay(dt) + n) % 86400)

\* dt.strftime("%-m/%-d/%y, %-I:%M:%S %p")
Strftime(dt) ==
  LET h12 == IF dt.hour % 12 = 0 THEN 12 ELSE dt.hour % 12
  IN NoPad(dt.month) \o <<"/">> \o NoPad(dt.day) \o <<"/">> \o Pad2(dt.year % 100)
     \o <<",", " ">> \o NoPad(h12) \o <<":">> \o Pad2(dt.minute) \o <<":">>
     \o Pad2(dt.second) \o <<" ">> \o (IF dt.hour < 12 THEN <<"A", "M">> ELSE <<"P", "M">>)

\* ^\[([^]]+)\] ([^:]+): at the start of a line; the groups are the
\* timestamp and the sender
HeaderKeyMatch(line) ==
  LET m1 == MCapNot(line, MLit(line, MStart(0), <<"[">>), "]")
      m2 == MCapNot(line, MLit(line, m1, <<"]", " ">>), ":")
  IN MLit(line, m2, <<":">>)

\* lines 36-39: the second format, tried when the first one failed
OrSecondFormat(first, timestamp_part) ==
  IF first.ok THEN first ELSE Strptime(timestamp_part, 4)

\* lines 31-39: the datetime of the timestamp part, NoDate for a ValueError
ParseStamp(timestamp_part) == OrSecondFormat(Strptime(timestamp_part, 2), timestamp_part)

ValueError == [kind |-> "ValueError", text |-> <<>>]
OverflowError == [kind |-> "OverflowError", text |-> <<>>]

\* lines 62-66: the text returned, with the name when the input had one
\* (name_part is None, here the empty text, for a bare timestamp)
Returned(new_timestamp_part, name_part) ==
  [kind |-> "ok",
   text |-> IF name_part # <<>>
            THEN <<"[">> \o new_timestamp_part \o <<"]", " ">> \o name_part \o <<":">>
            ELSE new_timestamp_part]

\* lines 44-66: the sum formatted; the sum itself overflowed past year 9999
FormatSum(sum, name_part) ==
  IF sum.ok THEN Returned(Strftime(sum), name_part) ELSE OverflowError

\* lines 31-66: from the parsed datetime on
ShiftAndFormat(dt, seconds_to_add, name_part) ==
  IF dt.ok THEN FormatSum(AddSeconds(dt, seconds_to_add), name_part) ELSE ValueError

\* lines 17-25: a full header, matched by the header pattern
IncrementHeader(match, seconds_to_add) ==
  IF match = {} THEN ValueError
  ELSE ShiftAndFormat(ParseStamp((CHOOSE h \in match : TRUE).cap[1]), seconds_to_add,
                      (CHOOSE h \in match : TRUE).cap[2])

\* incrementTimeStamp(timestamp_str, seconds_to_add): the text returned, or
\* the exception raised
incrementTimeStamp(timestamp_str, seconds_to_add) ==
  IF timestamp_str # <<>> /\ timestamp_str[1] = "[" /\ Contains(timestamp_str, <<"]">>)
  THEN IncrementHeader(HeaderKeyMatch(timestamp_str), seconds_to_add)
  ELSE ShiftAndFormat(ParseStamp(timestamp_str), seconds_to_add, <<>>)

\* ------------------------------------------------------ parse_timestamp

RECURSIVE SplitOn(_, _)
\* str.split(sep) for a separator of one character
SplitOn(s, sep) ==
  LET p == Find(s, <<sep>>)
  IN IF p < 0 THEN <<s>>
     ELSE <<SubSeq(s, 1, p)>> \o SplitOn(SubSeq(s, p + 2, Len(s)), sep)

\* int(text) succeeds: digits, white space around them allowed
IsInt(text) == Strip(text) # <<>> /\ \A i \in 1..Len(Strip(text)) : Strip(text)[i] \in Digit

IntOf(text) == NumVal(Strip(text))

\* lines 375-385: month, day and year of the three parts, a first number
\* above 12 swapping month and day, a year below 100 counted from 2000
DateOfParts(a, b, y) ==
  [ok |-> TRUE,
   month |-> IF a > 12 THEN b ELSE a,
   day |-> IF a > 12 THEN a ELSE b,
   year |-> IF y < 100 THEN y + 2000 ELSE y]

\* lines 367-385
DateFields(date_parts) ==
  IF Len(date_parts) # 3 THEN NoDate
  ELSE IF \E i \in 1..3 : ~IsInt(date_parts[i]) THEN NoDate
  ELSE DateOfParts(IntOf(date_parts[1]), IntOf(date_parts[2]), IntOf(date_parts[3]))

\* lines 391-393: the space variants become ordinary spaces
CleanSpaces(time_str) == Replace(Replace(time_str, <<NNBSP>>, <<" ">>), <<NBSP>>, <<" ">>)

\* line 399: the AM/PM token removed, with or without the space before it
WithoutAmPm(clean_time_str) ==
  Strip(Replace(Replace(Replace(Replace(clean_time_str, <<" ", "A", "M">>, <<>>),
                                <<"A", "M">>, <<>>),
                        <<" ", "P", "M">>, <<>>),
                <<"P", "M">>, <<>>))

\* lines 401-416 with 12 AM left at hour 12
TimeOfPartsNoMidnight(time_parts, is_12h_format, pm) ==
  IF Len(time_parts) < 2 THEN NoDate
  ELSE IF \E i \in 1..(IF Len(time_parts) > 2 THEN 3 ELSE 2) : ~IsInt(time_parts[i])
  THEN NoDate
  ELSE [ok |-> TRUE,
        hour |-> IF is_12h_format /\ pm /\ IntOf(time_parts[1]) < 12
                 THEN IntOf(time_parts[1]) + 12
                 ELSE IntOf(time_parts[1]),
        minute |-> IntOf(time_parts[2]),
        second |-> IF Len(time_parts) > 2 THEN IntOf(time_parts[3]) ELSE 0]

\* lines 401-416: hour, minute and second of the parts between colons
TimeOfParts(time_parts, is_12h_format, pm) ==
  IF Len(time_parts) < 2 THEN NoDate
  ELSE IF \E i \in 1..(IF Len(time_parts) > 2 THEN 3 ELSE 2) : ~IsInt(time_parts[i])
  THEN NoDate
  ELSE [ok |-> TRUE,
        hour |-> IF is_12h_format /\ pm /\ IntOf(time_parts[1]) < 12
                 THEN IntOf(time_parts[1]) + 12
                 ELSE IF is_12h_format /\ ~pm /\ IntOf(time_parts[1]) = 12 THEN 0
                 ELSE IntOf(time_parts[1]),
        minute |-> IntOf(time_parts[2]),
        second |-> IF Len(time_parts) > 2 THEN IntOf(time_parts[3]) ELSE 0]

\* lines 388-416
TimeFields(time_str) ==
  IF Contains(time_str, <<"A", "M">>) \/ Contains(time_str, <<"P", "M">>)
  THEN TimeOfParts(SplitOn(WithoutAmPm(CleanSpaces(time_str)), ":"), TRUE,
                   ~Contains(CleanSpaces(time_str), <<"A", "M">>))
  ELSE TimeOfParts(SplitOn(CleanSpaces(time_str), ":"), FALSE, FALSE)

\* line 418: datetime.datetime(...) raises ValueError for a field out of range
MakeDatetime(d, t) ==
  IF ~d.ok \/ ~t.ok THEN NoDate
  ELSE IF \/ d.year < 1 \/ d.year > 9999
          \/ d.month < 1 \/ d.month > 12
          \/ d.day < 1 \/ d.day > DaysInMonth(d.year, d.month)
          \/ t.hour > 23 \/ t.minute > 59 \/ t.second > 59
  THEN NoDate
  ELSE [ok |-> TRUE, year |-> d.year, month |-> d.month, day |-> d.day,
        hour |-> t.hour, minute |-> t.minute, second |-> t.second]

\* parse_timestamp(date_str, time_str): the datetime, or NoDate for None
parse_timestamp(date_str, time_str) ==
  MakeDatetime(DateFields(SplitOn(date_str, "/")), TimeFields(time_str))

\* the digits of an integer text without its leading zeros
RECURSIVE Significant(_)
Significant(digits) ==
  IF Len(digits) > 1 /\ digits[1] = "0" THEN Significant(Tail(digits)) ELSE digits

\* line 418: the number does not fit the C int that datetime.datetime(...)
\* converts each argument to, being above 2147483647
TooLargeForInt(text) ==
  LET d == Significant(Strip(text))
  IN \/ Len(d) > 10
     \/ /\ Len(d) = 10
        /\ \/ NumVal(SubSeq(d, 1, 9)) > 214748364
           \/ NumVal(SubSeq(d, 1, 9)) = 214748364 /\ NumVal(SubSeq(d, 10, 10)) > 7

\* lines 397-401: the parts of the time between colons
TimeParts(time_str) ==
  IF Contains(time_str, <<"A", "M">>) \/ Contains(time_str, <<"P", "M">>)
  THEN SplitOn(WithoutAmPm(CleanSpaces(time_str)), ":")
  ELSE SplitOn(CleanSpaces(time_str), ":")

\* lines 418-427: every int(...) succeeded and datetime.datetime(...) raises
\* OverflowError, which 'except (ValueError, IndexError)' does not catch
parse_timestamp_raises(date_str, time_str) ==
  LET date_parts == SplitOn(date_str, "/")
      time_parts == TimeParts(time_str)
      used == IF Len(time_parts) > 2 THEN 3 ELSE 2
  IN /\ Len(date_parts) = 3
     /\ \A i \in 1..3 : IsInt(date_parts[i])
     /\ Len(time_parts) >= 2
     /\ \A i \in 1..used : IsInt(time_parts[i])
     /\ \/ \E i \in 1..3 : TooLargeForInt(date_parts[i])
        \/ \E i \in 1..used : TooLargeForInt(time_parts[i])

\* ------------------------------------------- the assembler's patterns

\* the start of a group: its offset is kept where the group's text will be
MOpen(M) == {[m EXCEPT !.cap = Append(m.cap, m.pos)] : m \in M}

\* the end of group g: the text from the offset kept to here
MClose(s, M, g) == {[m EXCEPT !.cap[g] = SubSeq(s, m.cap[g] + 1, m.pos)] : m \in M}

\* (?::\d{2})?
MOptSeconds(s, M) == M \cup MRep(s, MLit(s, M, <<":">>), Digit, 2, 2)

\* (?:\s*[AP]M)?
MOptAmPm(s, M) ==
  M \cup MLit(s, MRep(s, MRep(s, M, Whitespace, 0, Len(s)), {"A", "P"}, 1, 1), <<"M">>)

\* \[(\d{1,2}/\d{1,2}/\d{2,4}),\s+(\d{1,2}:\d{2}(?::\d{2})?(?:\s*[AP]M)?)\]
\* matched from offset p; the groups are the date and the time
BracketMatch(s, p) ==
  LET d1 == MRep(s, MOpen(MLit(s, MStart(p), <<"[">>)), Digit, 1, 2)
      d2 == MRep(s, MLit(s, d1, <<"/">>), Digit, 1, 2)
      d3 == MClose(s, MRep(s, MLit(s, d2, <<"/">>), Digit, 2, 4), 1)
      t1 == MRep(s, MOpen(MRep(s, MLit(s, d3, <<",">>), Whitespace, 1, Len(s))), Digit, 1, 2)
      t2 == MRep(s, MLit(s, t1, <<":">>), Digit, 2, 2)
  IN IF ~OccursAt(s, <<"[">>, p) THEN {}
     ELSE MLit(s, MClose(s, MOptAmPm(s, MOptSeconds(s, t2)), 2), <<"]">>)

\* the white space at offset p: the length of the run
SpaceRun(s, p) ==
  MaxOf({k \in 0..(Len(s) - p) : \A i \in (p + 1)..(p + k) : s[i] \in Whitespace})

\* the first colon that ends a sender starting at offset q: 0 when none
SenderEnd(s, q) ==
  LET ends == {e \in (q + 2)..Len(s) : s[e] = ":" /\ \A i \in (q + 1)..(e - 1) : s[i] # NL}
  IN IF ends = {} THEN 0 ELSE MinOf(ends)

\* the lengths of white space after which a sender and its colon follow
SpaceChoices(s, p) == {k \in 1..SpaceRun(s, p) : SenderEnd(s, p + k) > 0}

\* \s+(.+?): after a bracket match: the engine tries the longest white
\* space first and, after it, the shortest sender; the sender is a group
MSender(s, M) ==
  {[pos |-> SenderEnd(s, m.pos + MaxOf(SpaceChoices(s, m.pos))),
    cap |-> Append(m.cap,
                   SubSeq(s, m.pos + MaxOf(SpaceChoices(s, m.pos)) + 1,
                          SenderEnd(s, m.pos + MaxOf(SpaceChoices(s, m.pos))) - 1))] :
     m \in {x \in M : SpaceChoices(s, x.pos) # {}}}

\* embedded_header_pattern matched from offset p, with the groups of the
\* pattern of line 302: date, time and sender
HeaderAt(s, p) == MSender(s, BracketMatch(s, p))

\* new_message_pattern.match(line)
IsUserHeader(line) == HeaderAt(line, 0) # {}

\* system_message_pattern.match(line): a bracket, white space, and no colon
\* in what follows
IsSystemHeader(line) ==
  \E m \in BracketMatch(line, 0) :
    \E k \in 1..SpaceRun(line, m.pos) : \A i \in (m.pos + k + 1)..Len(line) : line[i] # ":"

\* the offsets at or after `from` where the embedded pattern matches; it
\* matches at an opening bracket only
HeaderStarts(s, from) ==
  {p \in from..(Len(s) - 1) : s[p + 1] = "[" /\ HeaderAt(s, p) # {}}

\* the match of the embedded pattern at offset p, as finditer yields it
EmbeddedAt(s, p) ==
  LET m == CHOOSE x \in HeaderAt(s, p) : TRUE
  IN [start |-> p, end |-> m.pos, date_str |-> m.cap[1], time_str |-> m.cap[2],
      sender |-> m.cap[3]]

RECURSIVE EmbeddedFrom(_, _)
\* the match e, and the matches after its end
EmbeddedThen(s, e) == <<e>> \o EmbeddedFrom(s, e.end)

\* the leftmost of the matches at the offsets `starts`, and those after it
EmbeddedNext(s, starts) ==
  IF starts = {} THEN <<>> ELSE EmbeddedThen(s, EmbeddedAt(s, MinOf(starts)))

\* list(embedded_header_pattern.finditer(line)) from offset `from`: leftmost
\* first, the next one sought after the end of the last
EmbeddedFrom(s, from) == EmbeddedNext(s, HeaderStarts(s, from))

EmbeddedHeaders(line) == EmbeddedFrom(line, 0)

\* ------------------------------------------------------------- bounds

\* the longest transcript, in lines
MaxLines == 3
\* the largest number of seconds incrementTimeStamp is asked to add on its own
MaxShift == 2
\* the longest body of the finalization's messages, in pieces
MaxPieces == 3

\* the most lines of the transcripts generate_html's messages come from
MaxMediaLines == 2

\* the most attachment files
MaxMediaFiles == 2

\* ------------------------------------------------------------- the state

VARIABLES
  \* uniquify_chat_headers
  chat_content,       \* the argument: the transcript text
  lines,              \* chat_content.splitlines(), left-to-right marks removed
  line_num,           \* the first pass's position (0-based, as enumerate counts)
  headers_found,      \* key -> line number of its first occurrence
  duplicate_headers,  \* in insertion order: [key, line_numbers] of each duplicated key
  dup_index,          \* the second pass's position in duplicate_headers (1-based)
  occurrence,         \* and the i of enumerate(line_numbers[1:], 1)
  modified_lines,     \* the lines as rewritten so far
  unique_content,     \* the text returned
  upc,                \* "start", "first", "second", "join", "done" or "raised"
  run,                \* 1: on the transcript; 2: on the first run's own output
  first_content,      \* what the first run returned
  original_lines,     \* history: chat_content.splitlines() before any change
  \* incrementTimeStamp, called on its own
  stamp_in, stamp_add, stamp_out,
  \* parse_timestamp, called on its own
  ts_date, ts_time, ts_out,
  \* parse_chat_line_by_line
  parse_content,      \* the argument: the transcript text
  parse_lines,        \* chat_content.splitlines()
  line_index,         \* the lines read so far
  messages,           \* the messages closed so far, in order
  current_message,    \* <<>> for None, <<m>> for the open message m
  ppc,                \* "idle", "start", "loop", "post", "parsed", "exit" or "done"
  \* standard output
  printed,            \* what print was called with, in order: [warning, what, line]
  \* generate_html
  media_files,        \* the argument: the names of the attachment files, in order
  file_index,         \* the files mapped so far
  media_map,          \* date -> the files of that date not yet taken, in order
  unmatched_count,    \* the files without a date
  used_media,         \* the files written into a message
  msg_index,          \* the messages written so far
  html,               \* for each message written: [media_id, media], where media
                      \* lists [file, by, element]: the file, "token" or "date"
                      \* for how it came to the message, and the element written
                      \* ("none" when the file is marked used and nothing is written)
  unused_media,       \* the files of the 'Additional Media' section
  gpc                 \* "idle", "map", "mapped" or "end"

resolverVars ==
  <<chat_content, lines, line_num, headers_found, duplicate_headers, dup_index,
    occurrence, modified_lines, unique_content, upc, run, first_content,
    original_lines>>
stampVars == <<stamp_in, stamp_add, stamp_out, ts_date, ts_time, ts_out>>
assemblerVars == <<parse_content, parse_lines, line_index, messages, current_message, ppc>>
\* what the resolver leaves alone
mediaVars ==
  <<media_files, file_index, media_map, unmatched_count, used_media, msg_index,
    html, unused_media, gpc>>
notResolverVars == <<stampVars, assemblerVars, printed, mediaVars>>
\* what the assembler leaves alone
notAssemblerVars == <<resolverVars, stampVars, printed, mediaVars>>
vars == <<resolverVars, stampVars, assemblerVars, printed, mediaVars>>

\* ----------------------------------------------- uniquify_chat_headers

NoKeys == [k \in {} |-> 0]

\* the lines of a transcript of the pool, joined as a file holds them
ResolverIdle ==
  /\ chat_content = <<>> /\ lines = <<>> /\ line_num = 0
  /\ headers_found = NoKeys /\ duplicate_headers = <<>>
  /\ dup_index = 1 /\ occurrence = 1 /\ modified_lines = <<>>
  /\ unique_content = <<>> /\ upc = "idle" /\ run = 1 /\ first_content = <<>>
  /\ original_lines = <<>>

\* the line as it is
KeepLRM(line) == line

\* line.replace('\u200e', '')
StripLRM(line) == Replace(line, <<LRM>>, <<>>)

\* lines 83-92: split into lines and remove every left-to-right mark
ResolverStart ==
  /\ upc = "start"
  /\ lines' = [i \in 1..Len(SplitLines(chat_content)) |->
                 StripLRM(SplitLines(chat_content)[i])]
  /\ original_lines' = SplitLines(chat_content)
  /\ line_num' = 0
  /\ headers_found' = NoKeys
  /\ duplicate_headers' = <<>>
  /\ upc' = "first"
  /\ UNCHANGED <<chat_content, dup_index, occurrence, modified_lines,
                 unique_content, run, first_content, notResolverVars>>

\* the position of key in duplicate_headers, 0 when it is not there
DupPos(dups, key) ==
  LET at == {i \in 1..Len(dups) : dups[i].key = key}
  IN IF at = {} THEN 0 ELSE MinOf(at)

\* lines 105-115: the dictionaries after a header with this key at line n
RecordKey(found, dups, key, n) ==
  IF key \in DOMAIN found
  THEN [found |-> found,
        dups |-> IF DupPos(dups, key) = 0
                 THEN Append(dups, [key |-> key, line_numbers |-> <<found[key], n>>])
                 ELSE [dups EXCEPT ![DupPos(dups, key)].line_numbers = Append(@, n)]]
  ELSE [found |-> [k \in DOMAIN found \cup {key} |-> IF k = key THEN n ELSE found[k]],
        dups |-> dups]

\* lines 96-115: the dictionaries after line n, whose header match is match
AfterLine(found, dups, match, n) ==
  IF match = {} THEN [found |-> found, dups |-> dups]
  ELSE RecordKey(found, dups,
                 <<(CHOOSE m \in match : TRUE).cap[1], (CHOOSE m \in match : TRUE).cap[2]>>, n)

\* the first pass's two dictionaries become those of after
SetDictionaries(after) ==
  /\ headers_found' = after.found
  /\ duplicate_headers' = after.dups

\* lines 95-115: one turn of the first pass
FirstPass ==
  /\ upc = "first"
  /\ line_num < Len(lines)
  /\ SetDictionaries(AfterLine(headers_found, duplicate_headers,
                               HeaderKeyMatch(lines[line_num + 1]), line_num))
  /\ line_num' = line_num + 1
  /\ UNCHANGED <<chat_content, lines, dup_index, occurrence, modified_lines,
                 unique_content, upc, run, first_content, original_lines, notResolverVars>>

\* print(...): a report that is not a warning, and a warning about line n
Report(what) == [warning |-> FALSE, what |-> what, line |-> 0]
Warning(what, n) == [warning |-> TRUE, what |-> what, line |-> n]

\* lines 117-122: the first pass is over: its summary is printed, and the
\* second pass copies the lines
FirstPassEnd ==
  /\ upc = "first"
  /\ line_num = Len(lines)
  /\ modified_lines' = lines
  /\ dup_index' = 1
  /\ occurrence' = 1
  /\ upc' = "second"
  /\ printed' = Append(printed, Report("Found unique headers with duplicates"))
  /\ UNCHANGED <<chat_content, lines, line_num, headers_found, duplicate_headers,
                 unique_content, run, first_content, original_lines, stampVars,
                 assemblerVars, mediaVars>>

\* lines 138-143: the line with its header replaced by the one stamp gives,
\* or left alone, with a warning, for a ValueError; raised when stamp is
\* another exception
WithNewHeader(current_line, key, stamp) ==
  IF stamp.kind = "ok"
  THEN [raised |-> FALSE, warned |-> FALSE,
        line |-> ReplaceFirst(current_line,
                              <<"[">> \o key[1] \o <<"]", " ">> \o key[2] \o <<":">>,
                              <<"[">> \o stamp.text \o <<"]", " ">> \o key[2] \o <<":">>)]
  ELSE [raised |-> stamp.kind # "ValueError", warned |-> stamp.kind = "ValueError",
        line |-> current_line]

\* RewriteDuplicate adding one second to every duplicate, whatever its rank
RewriteDuplicateByOne(current_line, key, i) ==
  WithNewHeader(current_line, key, incrementTimeStamp(key[1], 1))

\* lines 131-143: the line after its i-th duplicate of key was processed
RewriteDuplicate(current_line, key, i) ==
  WithNewHeader(current_line, key, incrementTimeStamp(key[1], i))

\* the second pass moves on by one line of entry, whose line n became out
SecondPassStep(entry, n, out) ==
  /\ modified_lines' = [modified_lines EXCEPT ![n + 1] = out.line]
  /\ upc' = IF out.raised THEN "raised" ELSE "second"
  /\ printed' = IF out.warned
                THEN Append(printed, Warning("Could not process header", n + 1))
                ELSE printed
  /\ IF occurrence + 1 < Len(entry.line_numbers)
     THEN occurrence' = occurrence + 1 /\ dup_index' = dup_index
     ELSE occurrence' = 1 /\ dup_index' = dup_index + 1

\* the line number of the occurrence the second pass is at
DuplicateLine == duplicate_headers[dup_index].line_numbers[occurrence + 1]

\* lines 124-143: one turn of the inner loop of the second pass
SecondPass ==
  /\ upc = "second"
  /\ dup_index <= Len(duplicate_headers)
  /\ SecondPassStep(duplicate_headers[dup_index], DuplicateLine,
                    RewriteDuplicate(modified_lines[DuplicateLine + 1],
                                     duplicate_headers[dup_index].key, occurrence))
  /\ UNCHANGED <<chat_content, lines, line_num, headers_found, duplicate_headers,
                 unique_content, run, first_content, original_lines, stampVars,
                 assemblerVars, mediaVars>>

\* line 146: the lines joined are the result
ResolverReturn ==
  /\ upc = "second"
  /\ dup_index > Len(duplicate_headers)
  /\ unique_content' = JoinWith(modified_lines, <<NL>>)
  /\ upc' = "done"
  /\ UNCHANGED <<chat_content, lines, line_num, headers_found, duplicate_headers,
                 dup_index, occurrence, modified_lines, run, first_content,
                 original_lines, notResolverVars>>

\* uniquify_chat_headers called on what it returned
ResolverAgain ==
  /\ upc = "done"
  /\ run = 1
  /\ run' = 2
  /\ first_content' = unique_content
  /\ chat_content' = unique_content
  /\ upc' = "start"
  /\ UNCHANGED <<lines, line_num, headers_found, duplicate_headers, dup_index,
                 occurrence, modified_lines, unique_content, original_lines, notResolverVars>>

\* main, lines 2038 and 2051: the text the resolver returned is parsed
MainParse ==
  /\ upc = "done"
  /\ ppc = "idle"
  /\ parse_content' = unique_content
  /\ ppc' = "start"
  /\ UNCHANGED <<parse_lines, line_index, messages, current_message,
                 notAssemblerVars>>

\* ------------------------------------------------- incrementTimeStamp

ParseStampIdle == ts_date = <<>> /\ ts_time = <<>> /\ ts_out = [kind |-> "idle"]

StampIdle ==
  /\ stamp_in = <<>> /\ stamp_add = 0 /\ stamp_out = [kind |-> "idle", text |-> <<>>]
  /\ ParseStampIdle

\* incrementTimeStamp(stamp_in, n) is called and returns or raises
StampCall ==
  /\ stamp_out.kind = "called"
  /\ \E n \in 0..MaxShift :
       /\ stamp_add' = n
       /\ stamp_out' = incrementTimeStamp(stamp_in, n)
  /\ UNCHANGED <<stamp_in, ts_date, ts_time, ts_out>>
  /\ UNCHANGED <<resolverVars, assemblerVars, printed, mediaVars>>

\* ------------------------------------------------------ parse_timestamp

\* parse_timestamp(ts_date, ts_time) is called and returns the datetime or
\* None, or lets the OverflowError of datetime.datetime(...) through
ParseStampCall ==
  /\ ts_out.kind = "called"
  /\ ts_out' = IF parse_timestamp_raises(ts_date, ts_time)
               THEN [kind |-> "raised", what |-> "OverflowError"]
               ELSE [kind |-> "returned", value |-> parse_timestamp(ts_date, ts_time)]
  /\ UNCHANGED <<ts_date, ts_time, stamp_in, stamp_add, stamp_out>>
  /\ UNCHANGED <<resolverVars, assemblerVars, printed, mediaVars>>

\* --------------------------------------------- parse_chat_line_by_line

\* None, where a text is expected
None == <<"<None>">>

AssemblerIdle ==
  /\ parse_content = <<>> /\ parse_lines = <<>> /\ line_index = 0
  /\ messages = <<>> /\ current_message = <<>> /\ ppc = "idle"

\* lines 217-228: a new message; from_lines names, for each entry of
\* content_lines, the line it was taken from; content and message_id are
\* the keys added later
NewMessage(n) ==
  [line_number |-> n, content_lines |-> <<>>, from_lines |-> <<>>,
   is_system |-> FALSE, is_deleted |-> FALSE, is_edited |-> FALSE,
   sender |-> None, date_str |-> None, time_str |-> None, timestamp |-> NoDate,
   media |-> None, content |-> None, message_id |-> None]

\* content_lines.append(text), for text of line n
AddContent(msg, text, n) ==
  [msg EXCEPT !.content_lines = Append(@, text), !.from_lines = Append(@, n)]

\* lines 233-244: the date and the time of the bracket, and their datetime
WithStamp(msg, M) ==
  IF M = {} THEN msg
  ELSE LET m == CHOOSE x \in M : TRUE
       IN [msg EXCEPT !.date_str = m.cap[1], !.time_str = m.cap[2],
                      !.timestamp = parse_timestamp(m.cap[1], m.cap[2])]

\* line 247: line[line.find(']')+1:].strip()
AfterBracket(line) == Strip(SubSeq(line, Find(line, <<"]">>) + 2, Len(line)))

DeletedText == <<"T", "h", "i", "s", " ", "m", "e", "s", "s", "a", "g", "e", " ",
                 "w", "a", "s", " ", "d", "e", "l", "e", "t", "e", "d">>
DeletedByText == DeletedText \o <<" ", "b", "y">>

\* lines 254-257 with the deletion notice looked for in a user message too
UserMessageDeleted(msg, sender, content, n) ==
  IF Strip(content) # <<>>
  THEN AddContent([msg EXCEPT !.sender = Strip(sender),
                              !.is_deleted = Contains(content, DeletedText)],
                  Strip(content), n)
  ELSE [msg EXCEPT !.sender = Strip(sender)]

\* lines 254-257: sender and content around the first ": "
UserMessage(msg, sender, content, n) ==
  IF Strip(content) # <<>>
  THEN AddContent([msg EXCEPT !.sender = Strip(sender)], Strip(content), n)
  ELSE [msg EXCEPT !.sender = Strip(sender)]

\* lines 260-270: a system message, and the deletion notice among them
SystemMessage(msg, message_content, n) ==
  AddContent([msg EXCEPT
                !.is_system = TRUE,
                !.is_deleted = Contains(message_content, DeletedText),
                !.sender = IF Contains(message_content, DeletedByText)
                           THEN Strip(Replace(message_content, DeletedByText, <<>>))
                           ELSE <<"S", "y", "s", "t", "e", "m">>],
             message_content, n)

\* lines 252-270
Classified(msg, message_content, n) ==
  IF Contains(message_content, <<":", " ">>)
  THEN UserMessage(msg,
                   SubSeq(message_content, 1, Find(message_content, <<":", " ">>)),
                   SubSeq(message_content, Find(message_content, <<":", " ">>) + 3,
                          Len(message_content)),
                   n)
  ELSE SystemMessage(msg, message_content, n)

\* lines 217-270: the message a header line starts.  The handler of lines
\* 272-277 is never entered: parse_timestamp catches what it raises, and
\* nothing else in the block raises
HeaderMessage(line, n) ==
  Classified(WithStamp(NewMessage(n), BracketMatch(line, 0)), AfterBracket(line), n)

\* parse_timestamp printing nothing
StampWarningsNone(date_str, time_str, n) == <<>>

\* parse_timestamp, lines 368-370 and 420-427: what it prints when it returns
\* None for the header of line n (the warning, with the error under it)
StampWarnings(date_str, time_str, n) ==
  IF parse_timestamp(date_str, time_str).ok THEN <<>>
  ELSE IF Len(SplitOn(date_str, "/")) # 3 THEN <<Warning("Invalid date format", n)>>
  ELSE <<Warning("Could not parse date/time", n)>>

\* lines 234-244: what the parsing of a header line's timestamp prints
HeaderWarnings(M, n) ==
  IF M = {} THEN <<>>
  ELSE StampWarnings((CHOOSE x \in M : TRUE).cap[1], (CHOOSE x \in M : TRUE).cap[2], n)

RECURSIVE EmbeddedWarnings(_, _)
\* line 317: what the parsing of the embedded headers' timestamps prints
EmbeddedWarnings(embedded_headers, n) ==
  IF embedded_headers = <<>> THEN <<>>
  ELSE StampWarnings(embedded_headers[1].date_str, embedded_headers[1].time_str, n)
       \o EmbeddedWarnings(Tail(embedded_headers), n)

\* line 210
is_new_message(line) == IsUserHeader(line) \/ IsSystemHeader(line)

\* the text after header i of the line up to the end of the line, trimmed
EmbeddedBodyToLineEnd(line, embedded_headers, i) ==
  Strip(Slice(line, embedded_headers[i].end, Len(line)))

\* lines 322-327: the text after header i of the line, up to the next header
\* or the end of the line, trimmed
EmbeddedBody(line, embedded_headers, i) ==
  Strip(Slice(line, embedded_headers[i].end,
              IF i + 1 <= Len(embedded_headers) THEN embedded_headers[i + 1].start
              ELSE Len(line)))

\* lines 298-327: the message of embedded header i.  header_match matches
\* the pattern again on the text the header matched, which gives the same
\* three groups
EmbeddedMessage(line, embedded_headers, i, n) ==
  LET h == embedded_headers[i]
      msg == [NewMessage(n) EXCEPT !.sender = Strip(h.sender), !.date_str = h.date_str,
                                   !.time_str = h.time_str,
                                   !.timestamp = parse_timestamp(h.date_str, h.time_str)]
  IN IF EmbeddedBody(line, embedded_headers, i) # <<>>
     THEN AddContent(msg, EmbeddedBody(line, embedded_headers, i), n)
     ELSE msg

\* lines 293-294: the text before the first embedded header goes to the
\* open message
WithPrefix(msg, line, embedded_headers, n) ==
  IF embedded_headers[1].start > 0
  THEN AddContent(msg, Strip(Slice(line, 0, embedded_headers[1].start)), n)
  ELSE msg

\* lines 293-330
Expanded(msg, line, embedded_headers, n) ==
  <<WithPrefix(msg, line, embedded_headers, n)>>
  \o [i \in 1..Len(embedded_headers) |-> EmbeddedMessage(line, embedded_headers, i, n)]

\* lines 186-200
ParseStart ==
  /\ ppc = "start"
  /\ parse_lines' = SplitLines(parse_content)
  /\ line_index' = 0
  /\ messages' = <<>>
  /\ current_message' = <<>>
  /\ ppc' = "loop"
  /\ UNCHANGED <<parse_content, notAssemblerVars>>

\* the loop has a line to read
HasLine == ppc = "loop" /\ line_index < Len(parse_lines)

\* lines 202-207: an empty line is skipped
SkipBlank ==
  /\ HasLine
  /\ Strip(parse_lines[line_index + 1]) = <<>>
  /\ line_index' = line_index + 1
  /\ UNCHANGED <<parse_content, parse_lines, messages, current_message, ppc,
                 notAssemblerVars>>

\* lines 202-277: a header line closes the open message and opens its own
StartMessage ==
  /\ HasLine
  /\ Strip(parse_lines[line_index + 1]) # <<>>
  /\ is_new_message(parse_lines[line_index + 1])
  /\ line_index' = line_index + 1
  /\ messages' = messages \o current_message
  /\ current_message' = <<HeaderMessage(parse_lines[line_index + 1], line_index + 1)>>
  /\ printed' = printed \o HeaderWarnings(BracketMatch(parse_lines[line_index + 1], 0),
                                          line_index + 1)
  /\ UNCHANGED <<parse_content, parse_lines, ppc, resolverVars, stampVars, mediaVars>>

\* ExpandEmbedded leaving the message of the last embedded header open
ExpandEmbeddedLeftOpen ==
  /\ HasLine
  /\ Strip(parse_lines[line_index + 1]) # <<>>
  /\ ~is_new_message(parse_lines[line_index + 1])
  /\ current_message # <<>>
  /\ EmbeddedHeaders(parse_lines[line_index + 1]) # <<>>
  /\ line_index' = line_index + 1
  /\ messages' = messages
                 \o SubSeq(Expanded(current_message[1], parse_lines[line_index + 1],
                                     EmbeddedHeaders(parse_lines[line_index + 1]),
                                     line_index + 1),
                           1, Len(EmbeddedHeaders(parse_lines[line_index + 1])))
  /\ current_message' =
       <<EmbeddedMessage(parse_lines[line_index + 1],
                         EmbeddedHeaders(parse_lines[line_index + 1]),
                         Len(EmbeddedHeaders(parse_lines[line_index + 1])),
                         line_index + 1)>>
  /\ printed' = Append(printed, Report("Found embedded message headers"))
                \o EmbeddedWarnings(EmbeddedHeaders(parse_lines[line_index + 1]),
                                    line_index + 1)
  /\ UNCHANGED <<parse_content, parse_lines, ppc, resolverVars, stampVars, mediaVars>>

\* lines 202-210 and 279-333: a line with embedded headers, read while a
\* message is open, closes it and adds a message for each header
ExpandEmbedded ==
  /\ HasLine
  /\ Strip(parse_lines[line_index + 1]) # <<>>
  /\ ~is_new_message(parse_lines[line_index + 1])
  /\ current_message # <<>>
  /\ EmbeddedHeaders(parse_lines[line_index + 1]) # <<>>
  /\ line_index' = line_index + 1
  /\ messages' = messages \o Expanded(current_message[1], parse_lines[line_index + 1],
                                      EmbeddedHeaders(parse_lines[line_index + 1]),
                                      line_index + 1)
  /\ current_message' = <<>>
  /\ printed' = Append(printed, Report("Found embedded message headers"))
                \o EmbeddedWarnings(EmbeddedHeaders(parse_lines[line_index + 1]),
                                    line_index + 1)
  /\ UNCHANGED <<parse_content, parse_lines, ppc, resolverVars, stampVars, mediaVars>>

\* a continuation line of the open message read without being appended
ContinuationSkipped ==
  /\ HasLine
  /\ Strip(parse_lines[line_index + 1]) # <<>>
  /\ ~is_new_message(parse_lines[line_index + 1])
  /\ current_message # <<>>
  /\ EmbeddedHeaders(parse_lines[line_index + 1]) = <<>>
  /\ line_index' = line_index + 1
  /\ UNCHANGED <<parse_content, parse_lines, messages, current_message, ppc,
                 notAssemblerVars>>

\* lines 334-336 with the line added to the message appended last
ContinuationOfAppended ==
  /\ HasLine
  /\ Strip(parse_lines[line_index + 1]) # <<>>
  /\ ~is_new_message(parse_lines[line_index + 1])
  /\ current_message # <<>>
  /\ EmbeddedHeaders(parse_lines[line_index + 1]) = <<>>
  /\ line_index' = line_index + 1
  /\ messages' = [k \in 1..Len(messages) |->
                    IF k = Len(messages)
                    THEN AddContent(messages[k], parse_lines[line_index + 1], line_index + 1)
                    ELSE messages[k]]
  /\ UNCHANGED <<parse_content, parse_lines, current_message, ppc, notAssemblerVars>>

\* lines 202-210 and 334-336: a continuation line of the open message
Continuation ==
  /\ HasLine
  /\ Strip(parse_lines[line_index + 1]) # <<>>
  /\ ~is_new_message(parse_lines[line_index + 1])
  /\ current_message # <<>>
  /\ EmbeddedHeaders(parse_lines[line_index + 1]) = <<>>
  /\ line_index' = line_index + 1
  /\ current_message' = <<AddContent(current_message[1], parse_lines[line_index + 1],
                                     line_index + 1)>>
  /\ UNCHANGED <<parse_content, parse_lines, messages, ppc, notAssemblerVars>>

\* lines 202-210 and 283: no message is open, and the `if` has no else
DropLine ==
  /\ HasLine
  /\ Strip(parse_lines[line_index + 1]) # <<>>
  /\ ~is_new_message(parse_lines[line_index + 1])
  /\ current_message = <<>>
  /\ line_index' = line_index + 1
  /\ UNCHANGED <<parse_content, parse_lines, messages, current_message, ppc,
                 notAssemblerVars>>

\* the end of the loop without lines 339-340: the open message is forgotten
LastMessageForgotten ==
  /\ ppc = "loop"
  /\ line_index >= Len(parse_lines)
  /\ ppc' = "post"
  /\ UNCHANGED <<parse_content, parse_lines, line_index, messages, current_message,
                 notAssemblerVars>>

\* lines 338-340, at the end of the loop
LastMessage ==
  /\ ppc = "loop"
  /\ line_index >= Len(parse_lines)
  /\ messages' = messages \o current_message
  /\ ppc' = "post"
  /\ UNCHANGED <<parse_content, parse_lines, line_index, current_message,
                 notAssemblerVars>>

EditedText == <<" ", "(", "e", "d", "i", "t", "e", "d", ")">>
EditedMessageText ==
  <<" ", "(", "e", "d", "i", "t", "e", "d", " ", "m", "e", "s", "s", "a", "g", "e", ")">>
AttachedText == <<"<", "a", "t", "t", "a", "c", "h", "e", "d", ":", " ">>

\* <attached: (.+?)> matched at offset p: the offset after the first ">" that
\* follows at least one character, none of them a line break; 0 when none
AttachedEnd(content, p) ==
  LET ends == {e \in (p + Len(AttachedText) + 2)..Len(content) :
                 /\ content[e] = ">"
                 /\ \A i \in (p + Len(AttachedText) + 1)..(e - 1) : content[i] # NL}
  IN IF ~OccursAt(content, AttachedText, p) \/ ends = {} THEN 0 ELSE MinOf(ends)

\* the offsets at or after `from` where the attachment pattern matches
AttachedStarts(content, from) == {p \in from..Len(content) : AttachedEnd(content, p) > 0}

\* re.search(...).group(1): the name in the first attachment token
FirstAttached(content) ==
  SubSeq(content, MinOf(AttachedStarts(content, 0)) + Len(AttachedText) + 1,
         AttachedEnd(content, MinOf(AttachedStarts(content, 0))) - 1)

RECURSIVE RemoveAttached(_, _)
\* re.sub(r'<attached: .+?>', '', content) from offset `from`: the matches
\* from left to right, each sought after the end of the last
RemoveAttached(content, from) ==
  IF AttachedStarts(content, from) = {} THEN SubSeq(content, from + 1, Len(content))
  ELSE SubSeq(content, from + 1, MinOf(AttachedStarts(content, from)))
       \o RemoveAttached(content, AttachedEnd(content, MinOf(AttachedStarts(content, from))))

\* lines 353-359
WithMedia(msg, content) ==
  IF AttachedStarts(content, 0) = {} THEN [msg EXCEPT !.content = content]
  ELSE [msg EXCEPT !.media = FirstAttached(content),
                   !.content = Strip(RemoveAttached(content, 0))]

\* lines 348-359
WithEdited(msg, content) ==
  IF Contains(content, EditedText) \/ Contains(content, EditedMessageText)
  THEN WithMedia([msg EXCEPT !.is_edited = TRUE],
                 Replace(Replace(content, EditedText, <<>>), EditedMessageText, <<>>))
  ELSE WithMedia(msg, content)

\* lines 344-359, for one message
PostProcessed(msg) == WithEdited(msg, Strip(JoinWith(msg.content_lines, <<NL>>)))

\* lines 343-361: every message gets its content, and the list is returned
PostProcessing ==
  /\ ppc = "post"
  /\ messages' = [i \in 1..Len(messages) |-> PostProcessed(messages[i])]
  /\ ppc' = "parsed"
  /\ UNCHANGED <<parse_content, parse_lines, line_index, current_message,
                 notAssemblerVars>>

\* main, lines 2051-2055: without messages the program exits
NoMessages ==
  /\ ppc = "parsed"
  /\ messages = <<>>
  /\ ppc' = "exit"
  /\ UNCHANGED <<parse_content, parse_lines, line_index, messages, current_message,
                 notAssemblerVars>>

\* f"{i:08d}"
Pad8(i) ==
  [k \in 1..8 |-> DigitChars[((i \div (10 ^ (8 - k))) % 10) + 1]]

\* generate_html, lines 1209-1211: the identifiers, in the order of the list
AssignIds ==
  /\ ppc = "parsed"
  /\ messages # <<>>
  /\ messages' = [i \in 1..Len(messages) |-> [messages[i] EXCEPT !.message_id = Pad8(i)]]
  /\ ppc' = "done"
  /\ UNCHANGED <<parse_content, parse_lines, line_index, current_message,
                 notAssemblerVars>>

\* the names of the attachment files: an image and a video of 15 January
\* 2024, a name without a run of 8 digits, a name whose 8 digits are no
\* date, and a document and an image of 16 January
Img15 == <<"I", "M", "G", "-", "2", "0", "2", "4", "0", "1", "1", "5", "-", "W", "A", "0", "0", "0", "1", ".", "j", "p", "g">>
Vid15 == <<"V", "I", "D", "-", "2", "0", "2", "4", "0", "1", "1", "5", ".", "M", "P", "4">>
Photo == <<"p", "h", "o", "t", "o", ".", "j", "p", "g">>
NoDay == <<"I", "M", "G", "-", "2", "0", "2", "4", "1", "3", "0", "1", ".", "p", "n", "g">>
Doc16 == <<"D", "O", "C", "-", "2", "0", "2", "4", "0", "1", "1", "6", ".", "p", "d", "f">>

Img16 == <<"I", "M", "G", "-", "2", "0", "2", "4", "0", "1", "1", "6", ".", "P", "N", "G">>

MediaFilePool == {Img15, Vid15, Photo, NoDay, Doc16, Img16}

\* the lists of files the archive can hold: no name twice
MediaFileLists ==
  {fs \in UNION {[1..n -> MediaFilePool] : n \in 0..MaxMediaFiles} :
     \A i, j \in DOMAIN fs : fs[i] = fs[j] => i = j}

\* ---------------------------------------------------------- generate_html

\* generate_html is not running
MediaIdle ==
  /\ media_files = <<>> /\ file_index = 0
  /\ media_map = <<>> /\ unmatched_count = 0
  /\ used_media = {} /\ msg_index = 0
  /\ html = <<>> /\ unused_media = <<>> /\ gpc = "idle"

\* line 560: re.search(r'(\d{8})', file): the places where 8 digits start
DateRuns(file) ==
  {p \in 0..(Len(file) - 8) : \A i \in 1..8 : file[p + i] \in Digit}

\* lines 560-562: date_match.group(1), or <<>> when there is no match
DateRun(file) ==
  IF DateRuns(file) = {} THEN <<>>
  ELSE SubSeq(file, MinOf(DateRuns(file)) + 1, MinOf(DateRuns(file)) + 8)

\* line 565: datetime.datetime.strptime(date_str, '%Y%m%d').date() of 8
\* digits: four for the year, two for the month, two for the day, and a
\* ValueError (ok FALSE) when they are not a date of the calendar
FileDate(date_str) ==
  LET y == NumVal(SubSeq(date_str, 1, 4))
      m == NumVal(SubSeq(date_str, 5, 6))
      d == NumVal(SubSeq(date_str, 7, 8))
  IN IF y >= 1 /\ m \in 1..12 /\ d >= 1 /\ d <= DaysInMonth(y, m)
     THEN [ok |-> TRUE, year |-> y, month |-> m, day |-> d]
     ELSE NoDate

\* the day after the day of a datetime
DateOfDayAfter(timestamp) ==
  [ok |-> TRUE, year |-> timestamp.year, month |-> timestamp.month,
   day |-> timestamp.day + 1]

\* datetime.date(): the day of a datetime
DateOf(timestamp) ==
  [ok |-> TRUE, year |-> timestamp.year, month |-> timestamp.month,
   day |-> timestamp.day]

\* lines 566-568: media_map[file_date].append(file)
MappedTo(map, file_date, file) ==
  [d \in (DOMAIN map) \cup {file_date} |->
     IF d # file_date THEN map[d]
     ELSE IF d \in DOMAIN map THEN Append(map[d], file) ELSE <<file>>]

\* main, lines 2080-2085, and line 557: the messages are parsed and there
\* are some, and generate_html is called with them and the files of the
\* archive
AnalyzeMedia ==
  /\ gpc = "idle"
  /\ ppc = "parsed" /\ messages # <<>>
  /\ \E files \in MediaFileLists : media_files' = files
  /\ gpc' = "map"
  /\ printed' = Append(printed, Report("Analyzing media files for timestamp matching..."))
  /\ UNCHANGED <<file_index, media_map, unmatched_count, used_media,
                 msg_index, html, unused_media, resolverVars, stampVars, assemblerVars>>

\* lines 558-574: one file of the loop over media_files
MapFile ==
  /\ gpc = "map"
  /\ file_index < Len(media_files)
  /\ file_index' = file_index + 1
  /\ IF /\ DateRun(media_files[file_index + 1]) # <<>>
        /\ FileDate(DateRun(media_files[file_index + 1])).ok
     THEN /\ media_map' = MappedTo(media_map,
                                   FileDate(DateRun(media_files[file_index + 1])),
                                   media_files[file_index + 1])
          /\ printed' = Append(printed, Report("Mapped media file to date"))
          /\ UNCHANGED unmatched_count
     ELSE /\ unmatched_count' = unmatched_count + 1
          /\ UNCHANGED <<media_map, printed>>
  /\ UNCHANGED <<media_files, used_media, msg_index, html, unused_media, gpc,
                 resolverVars, stampVars, assemblerVars>>

\* lines 576-577: the loop over media_files is over
MapResults ==
  /\ gpc = "map"
  /\ file_index = Len(media_files)
  /\ gpc' = "mapped"
  /\ printed' = Append(printed, Report("Media mapping results"))
  /\ UNCHANGED <<media_files, file_index, media_map, unmatched_count, used_media,
                 msg_index, html, unused_media, resolverVars, stampVars, assemblerVars>>

\* lines 1209-1211, which come after the mapping
MediaIds == gpc = "mapped" /\ AssignIds

UpperChars ==
  <<"A", "B", "C", "D", "E", "F", "G", "H", "I", "J", "K", "L", "M",
    "N", "O", "P", "Q", "R", "S", "T", "U", "V", "W", "X", "Y", "Z">>
LowerChars ==
  <<"a", "b", "c", "d", "e", "f", "g", "h", "i", "j", "k", "l", "m",
    "n", "o", "p", "q", "r", "s", "t", "u", "v", "w", "x", "y", "z">>

\* str.lower()
Lower(text) ==
  [i \in 1..Len(text) |->
     IF \E k \in 1..26 : UpperChars[k] = text[i]
     THEN LowerChars[CHOOSE k \in 1..26 : UpperChars[k] = text[i]]
     ELSE text[i]]

\* os.path.splitext(name)[1] of a name without a directory: from the last
\* dot on, when a character that is not a dot comes before it
SplitExt(name) ==
  LET dots == {p \in 1..Len(name) : name[p] = "."}
  IN IF dots = {} THEN <<>>
     ELSE IF \E q \in 1..(MaxOf(dots) - 1) : name[q] # "."
          THEN SubSeq(name, MaxOf(dots), Len(name))
          ELSE <<>>

ImageExtensions ==
  {<<".", "j", "p", "g">>, <<".", "j", "p", "e", "g">>, <<".", "p", "n", "g">>,
   <<".", "g", "i", "f">>}
VideoExtensions ==
  {<<".", "m", "p", "4">>, <<".", "m", "o", "v">>, <<".", "a", "v", "i">>,
   <<".", "3", "g", "p">>}

\* lines 1274-1297 and 1308-1324: the element written for a file: an image,
\* a video, and for any other extension a link (for the message's own
\* media) or nothing (for a file of the message's date)
ElementFor(file_extension, other) ==
  IF file_extension \in ImageExtensions THEN "img"
  ELSE IF file_extension \in VideoExtensions THEN "video"
  ELSE other

\* lines 1273-1299: the message's own media
OwnMedia(msg) ==
  IF msg.media # None
  THEN <<[file |-> msg.media, by |-> "token",
          element |-> ElementFor(Lower(SplitExt(msg.media)), "a")]>>
  ELSE <<>>

\* line 1299: used_media.add(msg['media'])
UsedWithOwn(msg, used) == IF msg.media # None THEN used \cup {msg.media} ELSE used

RECURSIVE TakenByDateFirst(_, _, _)
\* lines 1305-1334 with the break of line 1333 taken whatever the message
\* has: the first file not yet used
TakenByDateFirst(files, used, has_media) ==
  IF files = <<>> THEN <<>>
  ELSE IF Head(files) \in used THEN TakenByDateFirst(Tail(files), used, has_media)
  ELSE <<Head(files)>>

RECURSIVE TakenByDateAll(_, _, _)
\* lines 1305-1334 without the break of line 1333: every file not yet used
TakenByDateAll(files, used, has_media) ==
  IF files = <<>> THEN <<>>
  ELSE IF Head(files) \in used THEN TakenByDateAll(Tail(files), used, has_media)
  ELSE <<Head(files)>> \o TakenByDateAll(Tail(files), used \cup {Head(files)}, has_media)

RECURSIVE TakenByDate(_, _, _)
\* lines 1305-1334: the files of the message's date that are taken, in the
\* order of the list: those not yet used, and only the first of them when the
\* message has no media of its own
TakenByDate(files, used, has_media) ==
  IF files = <<>> THEN <<>>
  ELSE IF Head(files) \in used THEN TakenByDate(Tail(files), used, has_media)
  ELSE IF ~has_media THEN <<Head(files)>>
  ELSE <<Head(files)>> \o TakenByDate(Tail(files), used \cup {Head(files)}, has_media)

\* list.remove(file): the list without the first file equal to it
ListRemove(files, file) ==
  LET at == {p \in 1..Len(files) : files[p] = file}
  IN IF at = {} THEN files
     ELSE SubSeq(files, 1, MinOf(at) - 1) \o SubSeq(files, MinOf(at) + 1, Len(files))

RECURSIVE RemoveTaken(_, _)
\* line 1330, for each of the files taken
RemoveTaken(files, taken) ==
  IF taken = <<>> THEN files
  ELSE RemoveTaken(ListRemove(files, Head(taken)), Tail(taken))

\* lines 1214 and 1302: the files of the message's date
FilesOfDate(msg, map) ==
  IF msg.timestamp.ok /\ DateOf(msg.timestamp) \in DOMAIN map
  THEN map[DateOf(msg.timestamp)]
  ELSE <<>>

\* lines 1302-1334: what the files of the date add to the message
DateMedia(taken) ==
  [i \in 1..Len(taken) |->
     [file |-> taken[i], by |-> "date",
      element |-> ElementFor(Lower(SplitExt(taken[i])), "none")]]

\* lines 1213-1339: one message of the loop over messages
RenderMessage ==
  /\ gpc = "mapped" /\ ppc = "done"
  /\ msg_index < Len(messages)
  /\ msg_index' = msg_index + 1
  /\ LET msg == messages[msg_index + 1]
         taken == TakenByDate(FilesOfDate(msg, media_map), UsedWithOwn(msg, used_media),
                              msg.media # None)
     IN /\ html' = Append(html, [media_id |-> msg.media,
                                 media |-> OwnMedia(msg) \o DateMedia(taken)])
        /\ used_media' = UsedWithOwn(msg, used_media) \cup {taken[i] : i \in 1..Len(taken)}
        /\ media_map' =
             IF msg.timestamp.ok /\ DateOf(msg.timestamp) \in DOMAIN media_map
             THEN [media_map EXCEPT ![DateOf(msg.timestamp)] = RemoveTaken(@, taken)]
             ELSE media_map
  /\ UNCHANGED <<media_files, file_index, unmatched_count, unused_media, gpc, printed,
                 resolverVars, stampVars, assemblerVars>>

\* lines 1341-1348: the files that were not used, in the order of media_files
GatherUnused ==
  /\ gpc = "mapped" /\ ppc = "done"
  /\ msg_index = Len(messages)
  /\ unused_media' = SelectSeq(media_files, LAMBDA file : file \notin used_media)
  /\ printed' = IF unused_media' # <<>>
                THEN Append(printed, Report("Found unused media files"))
                ELSE printed
  /\ gpc' = "end"
  /\ UNCHANGED <<media_files, file_index, media_map, unmatched_count, used_media,
                 msg_index, html, resolverVars, stampVars, assemblerVars>>

\* ------------------------------------------------------------ the inputs

\* "M/D/Y, h:m:s" followed by the AM/PM part
StampText(mon, day, year, hour, minute, second, ampm) ==
  mon \o <<"/">> \o day \o <<"/">> \o year \o <<",", " ">>
  \o hour \o <<":">> \o minute \o <<":">> \o second \o ampm

\* "[stamp] sender:" followed by the rest of the line
HeaderLine(stamp, sender, rest) ==
  <<"[">> \o stamp \o <<"]", " ">> \o sender \o <<":">> \o rest

AM == <<" ", "A", "M">>
PM == <<" ", "P", "M">>

\* the timestamp texts incrementTimeStamp is called on: with and without
\* leading zeros, two- and four-digit years, 12-hour and 24-hour times, a
\* narrow no-break space before AM/PM, month 13, the last second of a day,
\* of a month and of a year
StampInputs ==
  {StampText(mon, day, year, hour, minute, second, ampm) :
     mon \in {<<"8">>, <<"0", "8">>, <<"1", "2">>, <<"1", "3">>},
     day \in {<<"6">>, <<"0", "6">>, <<"3", "1">>},
     year \in {<<"2", "4">>, <<"2", "0", "2", "4">>},
     hour \in {<<"2">>, <<"0", "2">>, <<"1", "1">>, <<"1", "2">>, <<"1", "4">>},
     minute \in {<<"3", "7">>, <<"5", "9">>},
     second \in {<<"0", "2">>, <<"5", "9">>},
     ampm \in {AM, PM, <<NNBSP, "A", "M">>, <<>>}}
  \cup {HeaderLine(StampText(<<"8">>, <<"6">>, <<"2", "4">>, <<"2">>, <<"3", "7">>,
                             <<"0", "2">>, AM), <<"J">>, <<>>),
        <<"[", "x", "]">>}

Stamp1 == StampText(<<"8">>, <<"6">>, <<"2", "4">>, <<"2">>, <<"3", "7">>, <<"0", "2">>, AM)
Stamp2 == StampText(<<"8">>, <<"6">>, <<"2", "4">>, <<"2">>, <<"3", "7">>, <<"0", "3">>, AM)
StampZeros == StampText(<<"0", "8">>, <<"0", "6">>, <<"2", "0", "2", "4">>, <<"0", "2">>,
                        <<"3", "7">>, <<"0", "2">>, AM)
Stamp24h == StampText(<<"8">>, <<"6">>, <<"2", "4">>, <<"1", "4">>, <<"3", "7">>,
                      <<"0", "2">>, <<>>)
StampYearEnd == StampText(<<"1", "2">>, <<"3", "1">>, <<"2", "4">>, <<"1", "1">>,
                          <<"5", "9">>, <<"5", "9">>, PM)

\* the lines the resolver's transcripts are made of
ResolverLines ==
  { HeaderLine(Stamp1, <<"J">>, <<" ", "a">>),
    HeaderLine(Stamp2, <<"J">>, <<" ", "b">>),
    HeaderLine(StampZeros, <<"J">>, <<" ", "c">>),
    HeaderLine(Stamp24h, <<"J">>, <<" ", "d">>),
    HeaderLine(Stamp1, <<"J">>, <<" ", LRM, "e">>),
    HeaderLine(StampYearEnd, <<"K">>, <<" ", "f">>),
    <<"[">> \o Stamp1 \o <<"]", " ", "J", " ", "l", "e", "f", "t">>,
    <<" ", "g", ":", " ", "h">> }

ResolverInputs ==
  {JoinWith(ls, <<NL>>) : ls \in UNION {[1..n -> ResolverLines] : n \in 0..MaxLines}}

\* the header timestamps of the assembler's transcripts: 9:00:0s AM
AStamp(s) ==
  StampText(<<"1">>, <<"1", "5">>, <<"2", "4">>, <<"9">>, <<"0", "0">>, <<"0", s>>, AM)

Alice == <<"A", "l", "i", "c", "e">>
Bob == <<"B", "o", "b">>

\* a line with two embedded headers, text before the first, bodies with
\* white space around them, and an edited marker in the first body
TwoEmbedded ==
  <<"p", "r", "e", " ">>
  \o HeaderLine(AStamp("5"), <<"C", "a", "l">>, <<" ", "x">> \o EditedText \o <<" ">>)
  \o HeaderLine(AStamp("6"), <<"D", "a", "n">>, <<" ", " ", "y", " ">>)

\* the lines the assembler's transcripts are made of: a user header, a user
\* header whose body is the deletion notice, a system line, a deletion
\* notice as a system line, a header with nothing after the colon, an
\* indented continuation line, a blank line (one space), and a line with
\* embedded headers
AssemblerLines ==
  { HeaderLine(AStamp("0"), Alice, <<" ", "H", "e", "l", "l", "o">>),
    HeaderLine(AStamp("1"), Bob, <<" ">> \o DeletedText),
    <<"[">> \o AStamp("2") \o <<"]", " ", "B", "o", "b", " ", "l", "e", "f", "t">>,
    <<"[">> \o AStamp("3") \o <<"]", " ">> \o DeletedByText \o <<" ">> \o Bob,
    HeaderLine(AStamp("4"), Alice, <<>>),
    <<" ", " ", "W", "o", "r", "l", "d">>,
    <<" ">>,
    TwoEmbedded }

AssemblerInputs ==
  {JoinWith(ls, <<NL>>) : ls \in UNION {[1..n -> AssemblerLines] : n \in 0..MaxLines}}

\* the lines of the transcripts with deletion notices: as the body of a user
\* header, as a system line with and without 'by', as the body of an
\* embedded header, and a continuation line and a blank line
DeletedLines ==
  { HeaderLine(AStamp("1"), Bob, <<" ">> \o DeletedText),
    <<"[">> \o AStamp("2") \o <<"]", " ">> \o DeletedText,
    <<"[">> \o AStamp("3") \o <<"]", " ">> \o DeletedByText \o <<" ">> \o Bob,
    <<"p", "r", "e", " ">> \o HeaderLine(AStamp("5"), <<"C", "a", "l">>, <<" ">> \o DeletedText),
    <<" ", " ">> \o DeletedText,
    <<" ">> }

DeletedInputs ==
  {JoinWith(ls, <<NL>>) : ls \in UNION {[1..n -> DeletedLines] : n \in 0..MaxLines}}

\* the pieces the bodies of the finalization's transcripts are made of: plain
\* text, the edit markers with and without the space before them, an
\* attachment token, and the halves that leave a marker or a token behind
\* when one is cut out from between them
BodyPieces ==
  { <<"x">>,
    EditedText,
    EditedMessageText,
    <<"(", "e", "d", "i", "t", "e", "d", ")">>,
    <<"x", " ", "(", "e", "d", "i">>,
    <<"t", "e", "d", ")">>,
    AttachedText \o <<"f", ">">>,
    <<"<", "a", "t", "t">>,
    <<"a", "c", "h", "e", "d", ":", " ", "g", ">">> }

RECURSIVE Concat(_)
Concat(parts) == IF parts = <<>> THEN <<>> ELSE parts[1] \o Concat(Tail(parts))

\* bodies of up to MaxPieces pieces
Bodies == {Concat(ps) : ps \in UNION {[1..n -> BodyPieces] : n \in 1..MaxPieces}}

\* one user message: its header line with a body, or with one piece and a
\* continuation line of one piece
FinalizeInputs ==
  {HeaderLine(AStamp("0"), Alice, <<" ">> \o b) : b \in Bodies}
  \cup {HeaderLine(AStamp("0"), Alice, <<" ">> \o b) \o <<NL>> \o c :
          b \in BodyPieces, c \in BodyPieces}

\* the lines of the transcripts with timestamps that do not parse: a header
\* that parses, a user header with month and day 13, a system line at hour
\* 25, a line with two embedded headers of which the first is on 30
\* February, a continuation line and a blank line
UnparsableLines ==
  { HeaderLine(AStamp("0"), Alice, <<" ", "H", "e", "l", "l", "o">>),
    HeaderLine(StampText(<<"1", "3">>, <<"1", "3">>, <<"2", "4">>, <<"9">>, <<"0", "0">>,
                         <<"0", "1">>, AM), Bob, <<" ", "H", "i">>),
    <<"[", "1", "/", "1", "5", "/", "2", "4", ",", " ", "2", "5", ":", "0", "0", "]",
      " ", "B", "o", "b", " ", "l", "e", "f", "t">>,
    <<"p", "r", "e", " ">>
    \o HeaderLine(StampText(<<"2">>, <<"3", "0">>, <<"2", "4">>, <<"9">>, <<"0", "0">>,
                            <<"0", "5">>, AM), <<"C", "a", "l">>, <<" ", "x", " ">>)
    \o HeaderLine(AStamp("6"), <<"D", "a", "n">>, <<" ", "y">>),
    <<" ", " ", "W", "o", "r", "l", "d">>,
    <<" ">> }

UnparsableInputs ==
  {JoinWith(ls, <<NL>>) : ls \in UNION {[1..n -> UnparsableLines] : n \in 0..MaxLines}}

\* the lines of the transcripts whose messages get the files: on 15 January
\* a message without a token and one with the token of Img15, on 16 January
\* a message with the token of Photo and one without a token, and a message
\* whose date does not parse
MediaLines ==
  { HeaderLine(AStamp("0"), Alice, <<" ", "H", "e", "l", "l", "o">>),
    HeaderLine(AStamp("1"), Bob, <<" ">> \o AttachedText \o Img15 \o <<">">>),
    HeaderLine(StampText(<<"1">>, <<"1", "6">>, <<"2", "4">>, <<"9">>, <<"0", "0">>,
                         <<"0", "0">>, AM),
               Bob, <<" ", "s", "e", "e", " ">> \o AttachedText \o Photo \o <<">">>),
    HeaderLine(StampText(<<"1">>, <<"1", "6">>, <<"2", "4">>, <<"9">>, <<"0", "0">>,
                         <<"0", "1">>, AM), Alice, <<" ", "H", "i">>),
    HeaderLine(StampText(<<"1", "3">>, <<"1", "3">>, <<"2", "4">>, <<"9">>, <<"0", "0">>,
                         <<"0", "1">>, AM), Bob, <<" ", "H", "i">>) }

MediaInputs ==
  {JoinWith(ls, <<NL>>) : ls \in UNION {[1..n -> MediaLines] : n \in 0..MaxMediaLines}}

\* the timestamps of main's transcripts: a four-digit year of the last
\* century, the last second of the year 9999 and the last second of a minute
Stamp1999 == StampText(<<"8">>, <<"6">>, <<"1", "9", "9", "9">>, <<"2">>, <<"3", "7">>,
                       <<"0", "2">>, AM)
Stamp9999 == StampText(<<"1", "2">>, <<"3", "1">>, <<"9", "9", "9", "9">>, <<"1", "1">>,
                       <<"5", "9">>, <<"5", "9">>, PM)
StampMinuteEnd == StampText(<<"8">>, <<"6">>, <<"2", "4">>, <<"2">>, <<"3", "7">>,
                            <<"5", "9">>, AM)

\* the lines of main's transcripts: headers at the last second of a year, in
\* 1999, in 9999, with a 24-hour time, at the last second of a minute with a
\* left-to-right mark in the body, an empty line and a line without a header
PipelineLines ==
  { HeaderLine(StampYearEnd, <<"K">>, <<" ", "f">>),
    HeaderLine(Stamp1999, <<"J">>, <<" ", "a">>),
    HeaderLine(Stamp9999, <<"K">>, <<" ", "g">>),
    HeaderLine(Stamp24h, <<"J">>, <<" ", "d">>),
    HeaderLine(StampMinuteEnd, <<"J">>, <<" ", LRM, "e">>),
    <<>>,
    <<" ", "g", ":", " ", "h">> }

\* main goes on only with a text that is not empty
PipelineInputs ==
  {JoinWith(ls, <<NL>>) : ls \in UNION {[1..n -> PipelineLines] : n \in 1..MaxLines}}
  \ {<<>>}

\* ------------------------------------------------------ specifications

InitResolver ==
  /\ chat_content \in ResolverInputs
  /\ lines = <<>> /\ line_num = 0
  /\ headers_found = NoKeys /\ duplicate_headers = <<>>
  /\ dup_index = 1 /\ occurrence = 1 /\ modified_lines = <<>>
  /\ unique_content = <<>> /\ upc = "start" /\ run = 1 /\ first_content = <<>>
  /\ original_lines = <<>>
  /\ StampIdle
  /\ AssemblerIdle
  /\ printed = <<>>
  /\ MediaIdle

NextResolver ==
  \/ ResolverStart
  \/ FirstPass
  \/ FirstPassEnd
  \/ SecondPass
  \/ ResolverReturn
  \/ ResolverAgain

SpecResolver == InitResolver /\ [][NextResolver]_vars

InitStamp ==
  /\ ResolverIdle
  /\ stamp_in \in StampInputs
  /\ stamp_add = 0
  /\ stamp_out = [kind |-> "called", text |-> <<>>]
  /\ ParseStampIdle
  /\ AssemblerIdle
  /\ printed = <<>>
  /\ MediaIdle

NextStamp == StampCall

SpecStamp == InitStamp /\ [][NextStamp]_vars

InitAssembler ==
  /\ ResolverIdle
  /\ StampIdle
  /\ parse_content \in AssemblerInputs
  /\ parse_lines = <<>> /\ line_index = 0
  /\ messages = <<>> /\ current_message = <<>> /\ ppc = "start"
  /\ printed = <<>>
  /\ MediaIdle

NextAssembler ==
  \/ ParseStart
  \/ SkipBlank
  \/ StartMessage
  \/ ExpandEmbedded
  \/ Continuation
  \/ DropLine
  \/ LastMessage
  \/ PostProcessing
  \/ NoMessages
  \/ AssignIds

SpecAssembler == InitAssembler /\ [][NextAssembler]_vars

\* a step of the function: it moves to another place or to the next line
Advances ==
  /\ ppc \notin {"done", "exit"}
  /\ ppc' \in {"start", "loop", "post", "parsed", "done", "exit"}
  /\ line_index' \in 0..(MaxLines + 1)
  /\ ppc' # ppc \/ line_index' # line_index

\* the function runs on until it returns or exits. NextAssembler can take a
\* step exactly when ppc is not "done" or "exit", and each of its steps
\* changes ppc or line_index: this is weak fairness of NextAssembler, stated
\* on the two variables that show a step
FairAssembler == SpecAssembler /\ WF_<<ppc, line_index>>(Advances)

InitDeleted ==
  /\ ResolverIdle
  /\ StampIdle
  /\ parse_content \in DeletedInputs
  /\ parse_lines = <<>> /\ line_index = 0
  /\ messages = <<>> /\ current_message = <<>> /\ ppc = "start"
  /\ printed = <<>>
  /\ MediaIdle

SpecDeleted == InitDeleted /\ [][NextAssembler]_vars

InitUnparsable ==
  /\ ResolverIdle
  /\ StampIdle
  /\ parse_content \in UnparsableInputs
  /\ parse_lines = <<>> /\ line_index = 0
  /\ messages = <<>> /\ current_message = <<>> /\ ppc = "start"
  /\ printed = <<>>
  /\ MediaIdle

SpecUnparsable == InitUnparsable /\ [][NextAssembler]_vars

InitMedia ==
  /\ ResolverIdle
  /\ StampIdle
  /\ parse_content \in MediaInputs
  /\ parse_lines = <<>> /\ line_index = 0
  /\ messages = <<>> /\ current_message = <<>> /\ ppc = "start"
  /\ printed = <<>>
  /\ MediaIdle

NextMedia ==
  \/ ParseStart
  \/ StartMessage
  \/ LastMessage
  \/ PostProcessing
  \/ NoMessages
  \/ AnalyzeMedia
  \/ MapFile
  \/ MapResults
  \/ MediaIds
  \/ RenderMessage
  \/ GatherUnused

SpecMedia == InitMedia /\ [][NextMedia]_vars

InitPipeline ==
  /\ chat_content \in PipelineInputs
  /\ lines = <<>> /\ line_num = 0
  /\ headers_found = NoKeys /\ duplicate_headers = <<>>
  /\ dup_index = 1 /\ occurrence = 1 /\ modified_lines = <<>>
  /\ unique_content = <<>> /\ upc = "start" /\ run = 1 /\ first_content = <<>>
  /\ original_lines = <<>>
  /\ StampIdle
  /\ AssemblerIdle
  /\ printed = <<>>
  /\ MediaIdle

NextPipeline ==
  \/ ResolverStart
  \/ FirstPass
  \/ FirstPassEnd
  \/ SecondPass
  \/ ResolverReturn
  \/ MainParse
  \/ ParseStart
  \/ SkipBlank
  \/ StartMessage
  \/ Continuation
  \/ DropLine
  \/ LastMessage
  \/ PostProcessing
  \/ NoMessages

SpecPipeline == InitPipeline /\ [][NextPipeline]_vars

InitFinalize ==
  /\ ResolverIdle
  /\ StampIdle
  /\ parse_content \in FinalizeInputs
  /\ parse_lines = <<>> /\ line_index = 0
  /\ messages = <<>> /\ current_message = <<>> /\ ppc = "start"
  /\ printed = <<>>
  /\ MediaIdle

NextFinalize ==
  \/ ParseStart
  \/ StartMessage
  \/ Continuation
  \/ LastMessage
  \/ PostProcessing
  \/ AssignIds

SpecFinalize == InitFinalize /\ [][NextFinalize]_vars

\* the date texts parse_timestamp is called on: month first and day first, a
\* first number of 12 and of 13, both numbers above 12, a day its month does
\* not have, two fields only, fields that are no integers, years of two,
\* three and four digits, month 0, and a year above the C int range
DateInputs ==
  {<<"8", "/", "6", "/", "2", "4">>,
   <<"1", "2", "/", "1", "3", "/", "2", "4">>,
   <<"1", "3", "/", "1", "2", "/", "2", "4">>,
   <<"2", "5", "/", "1", "2", "/", "2", "4">>,
   <<"1", "3", "/", "1", "3", "/", "2", "4">>,
   <<"2", "/", "3", "0", "/", "2", "4">>,
   <<"3", "1", "/", "4", "/", "2", "4">>,
   <<"1", "/", "2">>,
   <<"a", "/", "b", "/", "2", "4">>,
   <<"1", "/", "1", "/", "1", "0", "0">>,
   <<"1", "/", "1", "/", "1", "9", "9", "9">>,
   <<"0", "/", "5", "/", "2", "4">>,
   <<"1", "/", "1", "/", "2", "1", "4", "7", "4", "8", "3", "6", "4", "8">>}

\* the time texts: 12 AM and 12 PM, other AM and PM hours, hour 0 and hour
\* 13 with a token, 24-hour times, with and without seconds, no-break spaces
\* before the token, hour 24, a time without a colon, a lower-case token
TimeInputs ==
  {<<"1", "2", ":", "3", "0", " ", "A", "M">>,
   <<"1", "2", ":", "3", "0", " ", "P", "M">>,
   <<"9", ":", "0", "5", " ", "P", "M">>,
   <<"9", ":", "0", "5", ":", "0", "7", " ", "P", "M">>,
   <<"9", ":", "0", "5", " ", "A", "M">>,
   <<"0", ":", "3", "0", " ", "A", "M">>,
   <<"0", ":", "3", "0", " ", "P", "M">>,
   <<"1", "3", ":", "3", "0", " ", "P", "M">>,
   <<"1", "3", ":", "3", "0">>,
   <<"0", ":", "0", "0">>,
   <<"2", "3", ":", "5", "9", ":", "5", "9">>,
   <<"2", "4", ":", "0", "0">>,
   <<"9", ":", "0", "5", ":", "0", "7", NNBSP, "P", "M">>,
   <<"9", ":", "0", "5", NBSP, "A", "M">>,
   <<"9">>,
   <<"9", ":", "0", "5", "p", "m">>}

\* the year no C int holds
YearTooLarge == <<"1", "/", "1", "/", "2", "1", "4", "7", "4", "8", "3", "6", "4", "8">>

InitParseStamp ==
  /\ ResolverIdle
  /\ stamp_in = <<>> /\ stamp_add = 0 /\ stamp_out = [kind |-> "idle", text |-> <<>>]
  /\ ts_date \in DateInputs
  /\ ts_time \in TimeInputs
  \* a time that fails before the year is used returns None whatever the
  \* year: the year too large is drawn with the times that parse
  /\ ts_date = YearTooLarge => TimeFields(ts_time).ok
  /\ ts_out = [kind |-> "called"]
  /\ AssemblerIdle
  /\ printed = <<>>
  /\ MediaIdle

NextParseStamp == ParseStampCall

SpecParseStamp == InitParseStamp /\ [][NextParseStamp]_vars


\* ------------------------------------------------------------- the claims

\* the key of a line the header pattern matches
KeyOf(line) ==
  <<(CHOOSE m \in HeaderKeyMatch(line) : TRUE).cap[1],
    (CHOOSE m \in HeaderKeyMatch(line) : TRUE).cap[2]>>

\* the text of a line after the header the pattern matches
AfterHeader(line) ==
  SubSeq(line, (CHOOSE m \in HeaderKeyMatch(line) : TRUE).pos + 1, Len(line))

\* the days of the months of year y before month m
DaysBefore(y, m) ==
  LET upTo == <<0, 31, 59, 90, 120, 151, 181, 212, 243, 273, 304, 334>>
  IN upTo[m] + (IF m > 2 /\ IsLeap(y) THEN 1 ELSE 0)

\* the days from 1 January of year 1 to the date of dt, that day being 1
OrdinalOf(dt) ==
  365 * (dt.year - 1) + ((dt.year - 1) \div 4) - ((dt.year - 1) \div 100)
  + ((dt.year - 1) \div 400) + DaysBefore(dt.year, dt.month) + dt.day

\* the seconds from the start of 1 January 2000 (day 730120) to dt
SecondsOf(dt) ==
  ((OrdinalOf(dt) - 730120) * 86400) + dt.hour * 3600 + dt.minute * 60 + dt.second

\* the lines of the text the resolver returned
UniqueLines == SplitLines(unique_content)

\* C1: in the text uniquify_chat_headers returns, no two header lines carry
\* the same (timestamp text, sender) key.
C1_KeysUnique ==
  upc = "done" =>
    \A i, j \in 1..Len(UniqueLines) :
      (/\ i < j
       /\ HeaderKeyMatch(UniqueLines[i]) # {}
       /\ HeaderKeyMatch(UniqueLines[j]) # {})
      => KeyOf(UniqueLines[i]) # KeyOf(UniqueLines[j])

\* C2: uniquify_chat_headers applied to its own output returns that output.
C2_Idempotent ==
  (upc = "done" /\ run = 2) => unique_content = first_content

\* the i-th later occurrence of entry's key, on line n (0-based), carries the
\* key's timestamp plus i seconds and the same sender, and what follows the
\* header on that line is what followed it on the line `before`
ShiftedBy(entry, i, n, before) ==
  /\ HeaderKeyMatch(modified_lines[n + 1]) # {}
  /\ KeyOf(modified_lines[n + 1])[2] = entry.key[2]
  /\ ParseStamp(KeyOf(modified_lines[n + 1])[1]).ok
  /\ SecondsOf(ParseStamp(KeyOf(modified_lines[n + 1])[1]))
       = SecondsOf(ParseStamp(entry.key[1])) + i
  /\ AfterHeader(modified_lines[n + 1]) = AfterHeader(before)

\* when the resolver has returned: every duplicated key whose timestamp
\* parses has its first line equal to that line of `before` and its i-th
\* later occurrence shifted by i seconds, the rest of the line as in `before`
DuplicatesShifted(before) ==
  upc = "done" =>
    \A d \in 1..Len(duplicate_headers) :
      ParseStamp(duplicate_headers[d].key[1]).ok =>
        /\ modified_lines[duplicate_headers[d].line_numbers[1] + 1]
             = before[duplicate_headers[d].line_numbers[1] + 1]
        /\ \A i \in 1..(Len(duplicate_headers[d].line_numbers) - 1) :
             ShiftedBy(duplicate_headers[d], i, duplicate_headers[d].line_numbers[i + 1],
                       before[duplicate_headers[d].line_numbers[i + 1] + 1])

C4_RoundTrip ==
  (stamp_out.kind = "ok" /\ stamp_add = 0) => stamp_out.text = stamp_in

\* the lines of the transcript at or before line i that the assembler reads
LinesTo(i) == SubSeq(parse_lines, 1, i)

\* what a line is to the assembler: blank, a header line, a line that holds
\* embedded headers, or a plain line
LineKind(line) ==
  IF Strip(line) = <<>> THEN "blank"
  ELSE IF is_new_message(line) THEN "header"
  ELSE IF EmbeddedHeaders(line) # <<>> THEN "embedded"
  ELSE "plain"

RECURSIVE OpenAfter(_)
\* the same once a line of the kind given is read after the lines ls
OpenThen(kind, ls) ==
  IF kind = "header" THEN TRUE
  ELSE IF kind = "embedded" THEN FALSE
  ELSE OpenAfter(ls)

\* a message is open once the lines ls are read: the last header line is not
\* followed by a line of embedded headers
OpenAfter(ls) ==
  IF ls = <<>> THEN FALSE
  ELSE OpenThen(LineKind(ls[Len(ls)]), SubSeq(ls, 1, Len(ls) - 1))

\* the headers a line of the kind given holds: a header line is one, and
\* another line has those embedded in it
HeadersOf(kind, line) ==
  IF kind = "header" THEN 1
  ELSE IF kind = "embedded" THEN Len(EmbeddedHeaders(line))
  ELSE 0

RECURSIVE HeadersIn(_)
\* the header lines of ls, plus the embedded headers of its other lines
HeadersIn(ls) ==
  IF ls = <<>> THEN 0
  ELSE HeadersIn(SubSeq(ls, 1, Len(ls) - 1)) + HeadersOf(LineKind(ls[Len(ls)]), ls[Len(ls)])

\* the parser has returned
Parsed == ppc \in {"parsed", "exit", "done"}

\* the identifiers are 1..N in the order of the list
IdsInOrder ==
  ppc = "done" => \A k \in 1..Len(messages) : NumVal(messages[k].message_id) = k

\* C5: the number of messages parse_chat_line_by_line returns is the number
\* of user and system header lines plus the number of embedded headers found
\* on the other lines, and the identifiers are 1..N in output order.
C5_CountAndIds ==
  /\ Parsed => Len(messages) = HeadersIn(parse_lines)
  /\ IdsInOrder

\* the messages line i put text into: those it started and those whose
\* content_lines hold text of it
FedBy(i) ==
  {k \in 1..Len(messages) :
     \/ messages[k].line_number = i
     \/ \E j \in 1..Len(messages[k].from_lines) : messages[k].from_lines[j] = i}

\* C6: every non-blank line of the transcript contributes its text to
\* exactly one returned message and every blank line to none.
C6_AsStated ==
  Parsed =>
    \A i \in 1..Len(parse_lines) :
      Cardinality(FedBy(i)) = IF LineKind(parse_lines[i]) = "blank" THEN 0 ELSE 1

\* the number of messages a line of the kind given contributes to when it
\* is read after the lines ls
ContributionsOf(kind, ls, line) ==
  CASE kind = "blank" -> 0
    [] kind = "header" -> 1
    [] kind = "plain" -> IF OpenAfter(ls) THEN 1 ELSE 0
    [] kind = "embedded" -> IF OpenAfter(ls) THEN Len(EmbeddedHeaders(line)) + 1 ELSE 0

Contributions(ls, line) == ContributionsOf(LineKind(line), ls, line)

\* C6 amended: a blank line contributes to no message; a header line and a
\* line without embedded headers read while a message is open contribute to
\* exactly one; a line with n embedded headers read while a message is open
\* contributes to n + 1, the open one and one per embedded header; any other
\* line read while no message is open contributes to none.
C6_Consumed ==
  Parsed =>
    \A i \in 1..Len(parse_lines) :
      Cardinality(FedBy(i)) = Contributions(LinesTo(i - 1), parse_lines[i])

\* a transcript with a line of two embedded headers that went to three
\* messages, and a line after it that went to none, has been parsed
C6_Witness ==
  /\ ppc = "done"
  /\ \E j, k \in 1..Len(parse_lines) :
       /\ j < k
       /\ LineKind(parse_lines[j]) = "embedded" /\ Cardinality(FedBy(j)) = 3
       /\ LineKind(parse_lines[k]) = "plain" /\ FedBy(k) = {}

\* C7: after finalization no message's content holds an attachment marker
\* '<attached: NAME>' or an edited marker '(edited)' / '(edited message)'.
C7_NoMarkers ==
  Parsed =>
    \A k \in 1..Len(messages) :
      /\ AttachedStarts(messages[k].content, 0) = {}
      /\ ~Contains(messages[k].content, Tail(EditedText))
      /\ ~Contains(messages[k].content, Tail(EditedMessageText))

\* the sender a user header line names: the pattern's group, trimmed
HeaderSender(line) == Strip((CHOOSE m \in HeaderAt(line, 0) : TRUE).cap[3])

\* the text of a user header line after the sender's colon, trimmed
HeaderBody(line) ==
  Strip(SubSeq(line, (CHOOSE m \in HeaderAt(line, 0) : TRUE).pos + 1, Len(line)))

\* C8: a user header line whose body holds 'This message was deleted' yields
\* a message with is_deleted true, whose sender, when no 'by X' follows, is
\* the sender the header names.
C8_DeletedUserMessage ==
  Parsed =>
    \A i \in 1..Len(parse_lines) :
      (/\ IsUserHeader(parse_lines[i])
       /\ Contains(HeaderBody(parse_lines[i]), DeletedText))
      => \E k \in 1..Len(messages) :
           /\ messages[k].line_number = i
           /\ messages[k].is_deleted
           /\ ~Contains(HeaderBody(parse_lines[i]), DeletedByText)
              => messages[k].sender = HeaderSender(parse_lines[i])

\* lines i+1..j are continuation lines without embedded headers, and the
\* block ends there: at the end of the transcript or before a header line
PlainBlock(i, j) ==
  /\ \A n \in (i + 1)..j : LineKind(parse_lines[n]) = "plain"
  /\ j = Len(parse_lines) \/ LineKind(parse_lines[j + 1]) = "header"

\* C9: a user header line followed by continuation lines without embedded
\* headers produces exactly one message: its sender is the header's sender,
\* is_system is false, and its content is the header's body and the
\* continuation lines joined by line breaks, in order.
C9_HeaderAndContinuations ==
  Parsed =>
    \A i \in 1..Len(parse_lines) : \A j \in i..Len(parse_lines) :
      (IsUserHeader(parse_lines[i]) /\ PlainBlock(i, j))
      => /\ Cardinality({k \in 1..Len(messages) : messages[k].line_number = i}) = 1
         /\ \A k \in 1..Len(messages) :
              messages[k].line_number = i
              => /\ messages[k].sender = HeaderSender(parse_lines[i])
                 /\ ~messages[k].is_system
                 /\ messages[k].content
                      = Strip(JoinWith(<<HeaderBody(parse_lines[i])>>
                                       \o SubSeq(parse_lines, i + 1, j), <<NL>>))

\* the text of the line between embedded header h and the next one, or the
\* end of the line
Between(line, heads, h) ==
  Slice(line, heads[h].end, IF h < Len(heads) THEN heads[h + 1].start ELSE Len(line))

\* the text of the line before its first embedded header
Before(line, heads) == Slice(line, 0, heads[1].start)

\* the text of an embedded header inside its brackets
StampOf(head) == head.date_str \o <<",", " ">> \o head.time_str

\* line i holds two embedded headers and is read while a message is open
TwoEmbeddedWhileOpen(i) ==
  /\ LineKind(parse_lines[i]) = "embedded"
  /\ Len(EmbeddedHeaders(parse_lines[i])) = 2
  /\ OpenAfter(LinesTo(i - 1))

\* msg is the message of the embedded header `head` of line i: it has the
\* header's sender and timestamp
EmbeddedIs(msg, i, head) ==
  /\ msg.line_number = i
  /\ msg.sender = Strip(head.sender)
  /\ msg.timestamp = ParseStamp(StampOf(head))
  /\ ~msg.is_system

\* the text holds no edited marker and no attachment marker
NoMarkers(text) ==
  /\ ~Contains(text, EditedText)
  /\ ~Contains(text, EditedMessageText)
  /\ AttachedStarts(text, 0) = {}

\* the text is the one body line of msg (it has none when the text is
\* empty), and its content unless the text holds a marker
BodyLineIs(msg, text) ==
  /\ msg.content_lines = IF text = <<>> THEN <<>> ELSE <<text>>
  /\ NoMarkers(text) => msg.content = text

\* message k was open when line i was read: its last body line is `prefix`,
\* taken from line i, and the two messages after it are the only messages
\* of line i, those of the headers `heads`
ClosedAndTwoMore(i, k, heads, prefix) ==
  /\ messages[k].line_number < i
  /\ messages[k].content_lines # <<>>
  /\ messages[k].from_lines[Len(messages[k].from_lines)] = i
  /\ messages[k].content_lines[Len(messages[k].content_lines)] = prefix
  /\ Len(messages) >= k + 2
  /\ {n \in 1..Len(messages) : messages[n].line_number = i} = {k + 1, k + 2}
  /\ EmbeddedIs(messages[k + 1], i, heads[1])
  /\ EmbeddedIs(messages[k + 2], i, heads[2])

\* the split of line i, with the texts as they stand in the line
SplitVerbatim(i, line, heads) ==
  \E k \in 1..Len(messages) :
    /\ ClosedAndTwoMore(i, k, heads, Before(line, heads))
    /\ messages[k + 1].content = Between(line, heads, 1)
    /\ messages[k + 2].content = Between(line, heads, 2)

\* the split of line i, with the texts trimmed
SplitTrimmed(i, line, heads) ==
  \E k \in 1..Len(messages) :
    /\ ClosedAndTwoMore(i, k, heads, Strip(Before(line, heads)))
    /\ BodyLineIs(messages[k + 1], Strip(Between(line, heads, 1)))
    /\ BodyLineIs(messages[k + 2], Strip(Between(line, heads, 2)))

\* C10: a line with two embedded headers read while a message is open: the
\* text before the first header is appended to the open message, which is
\* closed, and two further messages follow, each with its header's sender
\* and timestamp and with the text between its header and the next one (or
\* the end of the line) as its body.
C10_AsStated ==
  Parsed =>
    \A i \in 1..Len(parse_lines) :
      TwoEmbeddedWhileOpen(i)
      => SplitVerbatim(i, parse_lines[i], EmbeddedHeaders(parse_lines[i]))

\* C10 amended: the same, with the text before the first header and the two
\* texts between trimmed of the white space around them; the trimmed text
\* is the message's one body line (none when it is empty), and its content
\* when it holds no edited or attachment marker.
C10_TrimmedBodies ==
  Parsed =>
    \A i \in 1..Len(parse_lines) :
      TwoEmbeddedWhileOpen(i)
      => SplitTrimmed(i, parse_lines[i], EmbeddedHeaders(parse_lines[i]))

\* "[..] Alice: Hello", then "pre [..] Cal: x (edited) [..] Dan:  y " has
\* been parsed into three messages
C10_Witness ==
  /\ ppc = "done"
  /\ Len(parse_lines) = 2
  /\ parse_lines[2] = TwoEmbedded
  /\ Len(messages) = 3
  /\ messages[1].content = <<"H", "e", "l", "l", "o", NL, "p", "r", "e">>
  /\ messages[2].sender = <<"C", "a", "l">>
  /\ messages[2].content_lines = <<(<<"x">> \o EditedText)>>
  /\ messages[3].sender = <<"D", "a", "n">> /\ messages[3].content = <<"y">>
  /\ messages[3].timestamp.second = 6

\* the date and the time in the bracket at the start of a header line
StampGroups(line) == (CHOOSE m \in BracketMatch(line, 0) : TRUE).cap

\* the warnings printed about line i
WarningsAbout(i) == {p \in 1..Len(printed) : printed[p].warning /\ printed[p].line = i}

\* the messages that came from line i, in the order of the list
MessagesOf(i) == {k \in 1..Len(messages) : messages[k].line_number = i}

\* the messages are in the order of their lines
InLineOrder ==
  \A k \in 1..(Len(messages) - 1) : messages[k].line_number <= messages[k + 1].line_number

\* header line i has its one message; when its timestamp does not parse the
\* message has no timestamp and a warning about the line was printed
HeaderKept(i, groups) ==
  /\ Cardinality(MessagesOf(i)) = 1
  /\ \A k \in MessagesOf(i) :
       messages[k].timestamp = parse_timestamp(groups[1], groups[2])
  /\ ~parse_timestamp(groups[1], groups[2]).ok
     => /\ \A k \in MessagesOf(i) : messages[k].timestamp = NoDate
        /\ WarningsAbout(i) # {}

\* the embedded headers of line i that do not parse
UnparsableHeads(heads) ==
  {h \in 1..Len(heads) : ~parse_timestamp(heads[h].date_str, heads[h].time_str).ok}

\* line i, read while a message was open, has one message for each of its
\* embedded headers, in order; those of the headers that do not parse have
\* no timestamp, and there is a warning about the line for each of them
EmbeddedKept(i, heads) ==
  /\ Cardinality(MessagesOf(i)) = Len(heads)
  /\ \A h \in 1..Len(heads) :
       /\ MinOf(MessagesOf(i)) + h - 1 \in MessagesOf(i)
       /\ messages[MinOf(MessagesOf(i)) + h - 1].sender = Strip(heads[h].sender)
       /\ (h \in UnparsableHeads(heads))
          <=> (messages[MinOf(MessagesOf(i)) + h - 1].timestamp = NoDate)
  /\ Cardinality(WarningsAbout(i)) = Cardinality(UnparsableHeads(heads))

\* what C11 says of line i, of the kind given
KeptWhateverTheStamp(i, kind) ==
  /\ kind = "header" => HeaderKept(i, StampGroups(parse_lines[i]))
  /\ (kind = "embedded" /\ OpenAfter(LinesTo(i - 1)))
     => EmbeddedKept(i, EmbeddedHeaders(parse_lines[i]))

\* C11: a header, at the start of a line or embedded in a line read while a
\* message is open, has its message in the list at its place in transcript
\* order whether or not its date and time parse; when they do not, the
\* message's timestamp is None and a warning is printed, and the lines
\* after it are parsed as usual.
C11_UnparsableKept ==
  Parsed =>
    /\ InLineOrder
    /\ \A i \in 1..Len(parse_lines) : KeptWhateverTheStamp(i, LineKind(parse_lines[i]))

\* a header on 13/13, a line with an embedded header on 30 February and a
\* header that parses have been read: four messages, the first two without
\* a timestamp, and a warning about each of the first two lines
C11_Witness ==
  /\ ppc = "done"
  /\ Len(parse_lines) = 3
  /\ Len(messages) = 4
  /\ messages[1].timestamp = NoDate /\ messages[1].sender = Bob
  /\ messages[2].timestamp = NoDate /\ messages[2].sender = <<"C", "a", "l">>
  /\ messages[3].timestamp.ok /\ messages[3].sender = <<"D", "a", "n">>
  /\ messages[4].timestamp.ok /\ messages[4].sender = Alice
  /\ WarningsAbout(1) # {} /\ WarningsAbout(2) # {} /\ WarningsAbout(3) = {}

\* the messages a file has been written into
MessagesWith(file) ==
  {k \in 1..Len(html) : \E i \in 1..Len(html[k].media) : html[k].media[i].file = file}

\* the messages a file has been written into for their date
MessagesWithByDate(file) ==
  {k \in 1..Len(html) :
     \E i \in 1..Len(html[k].media) :
       html[k].media[i].file = file /\ html[k].media[i].by = "date"}

\* the files written into some message
FilesWritten ==
  UNION {{html[k].media[i].file : i \in 1..Len(html[k].media)} : k \in 1..Len(html)}

\* the messages whose body named the file
MessagesNaming(file) == {k \in 1..Len(messages) : messages[k].media = file}

\* C12: every file is written into at most one message, be it for a token in
\* the body or for the date, and a file that the body of some message names is
\* never given to another message for its date.
C12_AttachedOnce ==
  \A file \in FilesWritten :
    /\ Cardinality(MessagesWith(file)) <= 1
    /\ \A k \in MessagesWithByDate(file) : MessagesNaming(file) \subseteq {k}

\* 8 digits follow the first p characters of the name
EightDigitsAt(file, p) ==
  /\ p + 8 <= Len(file)
  /\ \A i \in 1..8 : file[p + i] \in Digit

\* the name has a run of 8 digits
HasEightDigits(file) == \E p \in 0..Len(file) : EightDigitsAt(file, p)

\* message k is on the day that the 8 digits after the first p characters of
\* the name spell as YYYYMMDD
OnDaySpelledAt(k, file, p) ==
  /\ messages[k].timestamp.ok
  /\ messages[k].timestamp.year = NumVal(SubSeq(file, p + 1, p + 4))
  /\ messages[k].timestamp.month = NumVal(SubSeq(file, p + 5, p + 6))
  /\ messages[k].timestamp.day = NumVal(SubSeq(file, p + 7, p + 8))

\* the files of the list, as a set
MediaFileSet == {media_files[i] : i \in 1..Len(media_files)}

UnusedSet == {unused_media[i] : i \in 1..Len(unused_media)}

\* a file is given for its date only to a message on a day that 8 digits of
\* its name spell
ByDateOnlyOnItsDay ==
  \A k \in 1..Len(html) : \A i \in 1..Len(html[k].media) :
    html[k].media[i].by = "date"
    => \E p \in 0..Len(html[k].media[i].file) :
         /\ EightDigitsAt(html[k].media[i].file, p)
         /\ OnDaySpelledAt(k, html[k].media[i].file, p)

\* C13 as stated: a file whose name has 8 digits that parse as YYYYMMDD is
\* given for its date only to a message on that day, and a file whose name
\* has no run of 8 digits is never written into any message and is in the
\* list of unused media.
C13_AsStated ==
  /\ ByDateOnlyOnItsDay
  /\ \A file \in MediaFileSet :
       ~HasEightDigits(file)
       => /\ MessagesWith(file) = {}
          /\ gpc = "end" => file \in UnusedSet

\* C13: a file is given for its date only to a message on the day that the
\* first 8 digits in a row of its name spell as YYYYMMDD; a file whose name
\* has no run of 8 digits is never given to a message for its date, and it is
\* in the list of unused media exactly when the body of no message names it.
C13_ByDateOnly ==
  /\ \A k \in 1..Len(html) : \A i \in 1..Len(html[k].media) :
       html[k].media[i].by = "date"
       => \E p \in 0..Len(html[k].media[i].file) :
            /\ EightDigitsAt(html[k].media[i].file, p)
            /\ \A q \in 0..(p - 1) : ~EightDigitsAt(html[k].media[i].file, q)
            /\ OnDaySpelledAt(k, html[k].media[i].file, p)
  /\ \A file \in MediaFileSet :
       ~HasEightDigits(file)
       => /\ MessagesWithByDate(file) = {}
          /\ gpc = "end" => (file \in UnusedSet <=> MessagesNaming(file) = {})

\* the message of 15 January without a token has been given the image of
\* that day, and the name without digits is left in the unused media
C13_Witness ==
  /\ gpc = "end"
  /\ media_files = <<Img15, Photo>>
  /\ Len(html) = 1
  /\ messages[1].media = None
  /\ html[1].media = <<[file |-> Img15, by |-> "date", element |-> "img"]>>
  /\ unused_media = <<Photo>>

\* the body of a message as its lines give it: joined and trimmed
JoinedBody(msg) == Strip(JoinWith(msg.content_lines, <<NL>>))

\* C14: a message whose joined body holds a token '<attached: NAME>' has NAME
\* (of the first such token) as its media and no token left in its content; a
\* message whose joined body holds no token has media None.
C14_MediaFromToken ==
  Parsed =>
    \A k \in 1..Len(messages) :
      IF AttachedStarts(JoinedBody(messages[k]), 0) # {}
      THEN /\ messages[k].media = FirstAttached(JoinedBody(messages[k]))
           /\ AttachedStarts(messages[k].content, 0) = {}
      ELSE messages[k].media = None

\* the i-th later occurrence of entry's key, on line n (0-based): when the
\* key's timestamp does not parse the line is as the first pass left it and a
\* warning about it was printed, and when it parses the line has a new key
FailureLeavesLine(entry, n) ==
  IF ParseStamp(entry.key[1]).ok
  THEN /\ HeaderKeyMatch(modified_lines[n + 1]) # {}
       /\ KeyOf(modified_lines[n + 1]) # entry.key
  ELSE /\ modified_lines[n + 1] = lines[n + 1]
       /\ WarningsAbout(n + 1) # {}

\* C15: uniquify_chat_headers never ends by an exception; when the timestamp
\* of a duplicated key cannot be parsed or written again, the lines of that
\* key are left as they are and a warning is printed, and the other keys are
\* rewritten all the same.
C15_NeverFatal ==
  /\ upc # "raised"
  /\ upc = "done" =>
       \A d \in 1..Len(duplicate_headers) :
         \A i \in 2..Len(duplicate_headers[d].line_numbers) :
           FailureLeavesLine(duplicate_headers[d], duplicate_headers[d].line_numbers[i])

\* C16: a line that is not blank and not a header line, read while no message
\* is open, goes to no message, and a warning about it is printed.
C16_DroppedWithWarning ==
  Parsed =>
    \A i \in 1..Len(parse_lines) :
      (/\ LineKind(parse_lines[i]) \in {"plain", "embedded"}
       /\ ~OpenAfter(LinesTo(i - 1)))
      => /\ FedBy(i) = {}
         /\ WarningsAbout(i) # {}

\* the text of a header line after its bracket
AfterStamp(line) == SubSeq(line, Find(line, <<"]">>) + 2, Len(line))

\* the sender a line of the user grammar names: the text between the bracket
\* and the first ": ", or the first colon when no space follows one, trimmed
GrammarSender(rest) ==
  IF Contains(rest, <<":", " ">>)
  THEN Strip(SubSeq(rest, 1, Find(rest, <<":", " ">>)))
  ELSE Strip(SubSeq(rest, 1, Find(rest, <<":">>)))

\* what message msg took as its body from line i
BodyFrom(msg, i) ==
  SelectSeq([j \in 1..Len(msg.content_lines) |->
               [text |-> msg.content_lines[j], from |-> msg.from_lines[j]]],
            LAMBDA e : e.from = i)

\* the message of a line of the user grammar is no system message and has
\* the sender the line names
OpensUserMessage(msg, line) ==
  /\ ~msg.is_system
  /\ msg.sender = GrammarSender(AfterStamp(line))

\* the message of a line of the system grammar is a system message of sender
\* 'System' (of the sender named after 'This message was deleted by', when
\* the line holds that), and the text after the bracket is the one body line
\* it has from line i
OpensSystemMessage(msg, line, i) ==
  /\ msg.is_system
  /\ ~Contains(line, DeletedByText) => msg.sender = <<"S", "y", "s", "t", "e", "m">>
  /\ BodyFrom(msg, i) = <<[text |-> Strip(AfterStamp(line)), from |-> i]>>

\* C17: a line of the user grammar opens a message that is no system message,
\* with the text between the header and the first ': ' as its sender; a line
\* of the system grammar opens a system message of sender 'System' with the
\* rest of the line as its one body line; no line of the user grammar yields
\* a system message.
C17_GrammarDecidesKind ==
  Parsed =>
    \A i \in 1..Len(parse_lines) :
      LineKind(parse_lines[i]) = "header"
      => /\ Cardinality(MessagesOf(i)) = 1
         /\ \A k \in MessagesOf(i) :
              IF IsUserHeader(parse_lines[i])
              THEN OpensUserMessage(messages[k], parse_lines[i])
              ELSE OpensSystemMessage(messages[k], parse_lines[i], i)

\* every body line of msg is from the line that opened it
OnlyItsOwnLine(msg) ==
  \A j \in 1..Len(msg.from_lines) : msg.from_lines[j] = msg.line_number

\* no body line of msg is from a line before the one that opened it
NothingFromBefore(msg) ==
  \A j \in 1..Len(msg.from_lines) : msg.from_lines[j] >= msg.line_number

\* the line read last held embedded headers and was read while a message was open
JustExpanded ==
  /\ ppc = "loop"
  /\ line_index >= 1
  /\ LineKind(parse_lines[line_index]) = "embedded"
  /\ OpenAfter(LinesTo(line_index - 1))

\* C18: once a line with embedded headers has been read no message is open;
\* the messages of its embedded headers are closed and no later line is ever
\* added to them, and a header read afterwards opens a message that holds
\* nothing of the lines before it.
C18_ClosedAfterEmbedded ==
  /\ JustExpanded => current_message = <<>>
  /\ \A k \in 1..Len(messages) :
       /\ NothingFromBefore(messages[k])
       /\ LineKind(parse_lines[messages[k].line_number]) = "embedded"
          => OnlyItsOwnLine(messages[k])
  /\ \A c \in 1..Len(current_message) :
       /\ NothingFromBefore(current_message[c])
       /\ LineKind(parse_lines[current_message[c].line_number]) = "header"

\* a line with two embedded headers was read while a message was open, and
\* after it a header line: the messages of the embedded headers hold their
\* own line only, and so does the message of the header line
C18_Witness ==
  /\ ppc = "done"
  /\ Len(parse_lines) = 3
  /\ LineKind(parse_lines[1]) = "header"
  /\ LineKind(parse_lines[2]) = "embedded" /\ Cardinality(MessagesOf(2)) = 2
  /\ LineKind(parse_lines[3]) = "header"
  /\ Len(messages) = 4
  /\ messages[4].line_number = 3 /\ messages[4].from_lines = <<3>>
  /\ messages[3].from_lines = <<2>>

\* datetime b is i seconds after datetime a, for an i of less than a day
LaterBy(a, b, i) ==
  /\ a.ok /\ b.ok
  /\ OrdinalOf(b) - OrdinalOf(a) \in {0, 1}
  /\ (OrdinalOf(b) - OrdinalOf(a)) * 86400
     + (b.hour * 3600 + b.minute * 60 + b.second)
     - (a.hour * 3600 + a.minute * 60 + a.second) = i

\* the line (0-based n) of the i-th later occurrence of entry's key has one
\* message, and its timestamp is i seconds after that of the message of the
\* key's first line
ResolvesLaterBy(entry, i, n) ==
  /\ Cardinality(MessagesOf(entry.line_numbers[1] + 1)) = 1
  /\ Cardinality(MessagesOf(n + 1)) = 1
  /\ \A a \in MessagesOf(entry.line_numbers[1] + 1) : \A b \in MessagesOf(n + 1) :
       LaterBy(messages[a].timestamp, messages[b].timestamp, i)

\* C19: in the transcript the resolver returns, the headers of a duplicated
\* key that were rewritten resolve, by parse_timestamp, to the timestamp of
\* the key's first header plus i seconds for the i-th of them, and so to
\* strictly increasing timestamps, across the end of a minute, a day or a
\* year as well.
C19_GroupIncreasing ==
  (upc = "done" /\ Parsed) =>
    \A d \in 1..Len(duplicate_headers) :
      ParseStamp(duplicate_headers[d].key[1]).ok
      => \A i \in 1..(Len(duplicate_headers[d].line_numbers) - 1) :
           ResolvesLaterBy(duplicate_headers[d], i,
                           duplicate_headers[d].line_numbers[i + 1])

\* a line without its left-to-right marks
WithoutLRM(line) == SelectSeq(line, LAMBDA c : c # LRM)

\* line n of the input holds a key that a line before it holds
LaterOccurrence(n) ==
  /\ HeaderKeyMatch(WithoutLRM(original_lines[n])) # {}
  /\ \E m \in 1..(n - 1) :
       /\ HeaderKeyMatch(WithoutLRM(original_lines[m])) # {}
       /\ KeyOf(WithoutLRM(original_lines[m])) = KeyOf(WithoutLRM(original_lines[n]))

\* line n of the output is line n of the input without its left-to-right
\* marks, but for the timestamp in the header at its start when the line
\* holds a key that a line before it holds
SameButHeader(out, n) ==
  IF LaterOccurrence(n)
  THEN /\ HeaderKeyMatch(out) # {}
       /\ KeyOf(out)[2] = KeyOf(WithoutLRM(original_lines[n]))[2]
       /\ AfterHeader(out) = AfterHeader(WithoutLRM(original_lines[n]))
  ELSE out = WithoutLRM(original_lines[n])

\* C20 as stated: the text returned has as many lines as the input, in the
\* same order; a line that is not a later occurrence of a duplicated key is
\* the input line without its left-to-right marks, and a rewritten line
\* differs from it in the header at its start only.
C20_AsStated ==
  upc = "done" =>
    /\ Len(UniqueLines) = Len(original_lines)
    /\ \A n \in 1..MinOf({Len(UniqueLines), Len(original_lines)}) :
         SameButHeader(UniqueLines[n], n)

\* the lines of the input that the text returned has: all of them, or all
\* but the last when the last, without its marks, is empty
LinesKept ==
  IF original_lines # <<>> /\ WithoutLRM(original_lines[Len(original_lines)]) = <<>>
  THEN Len(original_lines) - 1
  ELSE Len(original_lines)

\* C20: the text returned has the lines of the input in the same order, but
\* for an empty last line, which it does not have; a line that is not a later
\* occurrence of a duplicated key is the input line without its left-to-right
\* marks, and a rewritten line differs from it in the header at its start
\* only.
C20_OnlyDuplicateHeaders ==
  upc = "done" =>
    /\ Len(UniqueLines) = LinesKept
    /\ \A n \in 1..LinesKept : SameButHeader(UniqueLines[n], n)

\* the resolver returned a transcript of three lines: the first holds a
\* left-to-right mark, the second is the same header again and was
\* rewritten, the third is not a header line
C20_Witness ==
  /\ upc = "done"
  /\ Len(original_lines) = 3 /\ Len(UniqueLines) = 3
  /\ original_lines[1] # UniqueLines[1]
  /\ original_lines[2] = original_lines[1]
  /\ UniqueLines[2] # UniqueLines[1]
  /\ HeaderKeyMatch(original_lines[3]) = {} /\ original_lines[3] # <<>>

\* C21: header lines of the system grammar (a bracketed timestamp and no
\* 'sender:' after it) are recorded by the first pass like those of the user
\* grammar: in the text the resolver returns no two of them carry the same
\* timestamp and the same text after it.
C21_SystemHeadersUnique ==
  upc = "done" =>
    \A i, j \in 1..Len(UniqueLines) :
      (/\ i < j
       /\ IsSystemHeader(UniqueLines[i])
       /\ IsSystemHeader(UniqueLines[j]))
      => UniqueLines[i] # UniqueLines[j]

\* the date text has three integer fields between slashes
ThreeIntegers(date_str) ==
  /\ Len(SplitOn(date_str, "/")) = 3
  /\ \A i \in 1..3 : IsInt(SplitOn(date_str, "/")[i])

\* the month, day and year the claim reads in 'A/B/Y'
ReadDate(date_str) ==
  LET A == IntOf(SplitOn(date_str, "/")[1])
      B == IntOf(SplitOn(date_str, "/")[2])
      Y == IntOf(SplitOn(date_str, "/")[3])
  IN [month |-> IF A <= 12 THEN A ELSE B,
      day |-> IF A <= 12 THEN B ELSE A,
      year |-> IF Y < 100 THEN 2000 + Y ELSE Y]

\* a day of the calendar
CalendarDate(d) ==
  /\ d.year >= 1 /\ d.year <= 9999
  /\ d.month >= 1 /\ d.month <= 12
  /\ d.day >= 1 /\ d.day <= DaysInMonth(d.year, d.month)

\* C22: a call of parse_timestamp never raises; the datetime it returns has
\* the month, day and year read from 'A/B/Y' (month A and day B when A <= 12,
\* day A and month B when A > 12, a year below 100 counted from 2000); and it
\* returns None when the date lacks three integer fields or the values read
\* are no calendar date.
C22_DateReading ==
  ts_out.kind \notin {"idle", "called"} =>
    /\ ts_out.kind = "returned"
    /\ ts_out.value.ok =>
         /\ ThreeIntegers(ts_date)
         /\ ts_out.value.year = ReadDate(ts_date).year
         /\ ts_out.value.month = ReadDate(ts_date).month
         /\ ts_out.value.day = ReadDate(ts_date).day
    /\ ~ThreeIntegers(ts_date) => ~ts_out.value.ok
    /\ (ThreeIntegers(ts_date) /\ ~CalendarDate(ReadDate(ts_date))) => ~ts_out.value.ok

RECURSIVE LeadingDigits(_)
\* the digits a text starts with
LeadingDigits(text) ==
  IF text = <<>> \/ text[1] \notin Digit THEN <<>>
  ELSE <<text[1]>> \o LeadingDigits(Tail(text))

\* the hour written in the time text, before the first colon
WrittenHour(time_str) == NumVal(LeadingDigits(time_str))

HasAM(time_str) == Contains(time_str, <<"A", "M">>)
HasPM(time_str) == Contains(time_str, <<"P", "M">>) /\ ~HasAM(time_str)

\* a call that returned a datetime
ReturnedDatetime == ts_out.kind = "returned" /\ ts_out.value.ok

\* 12 AM is hour 0, an AM hour is otherwise kept, seconds absent are 0, and
\* without a token the hour is the 24-hour value as written
HoursButPM ==
  /\ HasAM(ts_time) =>
       ts_out.value.hour = IF WrittenHour(ts_time) = 12 THEN 0 ELSE WrittenHour(ts_time)
  /\ (~HasAM(ts_time) /\ ~HasPM(ts_time)) => ts_out.value.hour = WrittenHour(ts_time)
  /\ Len(SplitOn(ts_time, ":")) = 2 => ts_out.value.second = 0

\* C23 as stated: in a datetime parse_timestamp returns, 12 AM is hour 0,
\* 12 PM is hour 12, every other PM hour is the written hour plus 12, other
\* AM hours are as written, the seconds are 0 when absent, and an hour
\* without AM/PM is as written.
C23_AsStated ==
  ReturnedDatetime =>
    /\ HoursButPM
    /\ HasPM(ts_time) =>
         ts_out.value.hour = IF WrittenHour(ts_time) = 12 THEN 12
                             ELSE WrittenHour(ts_time) + 12

\* C23 as the code has it: the same, but only a PM hour below 12 gets 12
\* added; a PM hour from 12 to 23 is kept as written.
C23_HourOfDay ==
  ReturnedDatetime =>
    /\ HoursButPM
    /\ HasPM(ts_time) =>
         ts_out.value.hour = IF WrittenHour(ts_time) < 12
                             THEN WrittenHour(ts_time) + 12
                             ELSE WrittenHour(ts_time)

\* a datetime was returned for a PM time whose written hour is above 12
C23_Witness == ReturnedDatetime /\ HasPM(ts_time) /\ WrittenHour(ts_time) > 12

\* the files written into the messages before message k
TakenBefore(k) ==
  UNION {{html[j].media[i].file : i \in 1..Len(html[j].media)} : j \in 1..(k - 1)}

\* the file's first run of 8 digits spells the day of message k
OnDayOf(k, file) ==
  \E p \in 0..Len(file) :
    /\ EightDigitsAt(file, p)
    /\ \A q \in 0..(p - 1) : ~EightDigitsAt(file, q)
    /\ OnDaySpelledAt(k, file, p)

\* the places in the list of files of those that map to the day of message
\* k and are not used when message k is reached
StillUnused(k) ==
  {i \in 1..Len(media_files) :
     OnDayOf(k, media_files[i]) /\ media_files[i] \notin TakenBefore(k)}

\* the files message k was given for its date, in the order given
GivenByDate(k) ==
  LET by_date == SelectSeq(html[k].media, LAMBDA e : e.by = "date")
  IN [i \in 1..Len(by_date) |-> by_date[i].file]

\* C24: a message without a media token is given at most one file for its
\* date: the first in the order of the list of files among those that map to
\* its day and are unused when it is reached, and none when there is no such
\* file.
C24_FirstUnusedOfDay ==
  \A k \in 1..Len(html) :
    messages[k].media = None
    => GivenByDate(k) = IF StillUnused(k) = {} THEN <<>>
                        ELSE <<media_files[MinOf(StillUnused(k))]>>

\* a message without a token was reached with two unused files of its day
\* and has been given one
C24_Witness ==
  \E k \in 1..Len(html) :
    /\ messages[k].media = None
    /\ Cardinality(StillUnused(k)) >= 2
    /\ Len(GivenByDate(k)) = 1

\* the text ends with the suffix
EndsWithText(text, suffix) ==
  /\ Len(text) >= Len(suffix)
  /\ SubSeq(text, Len(text) - Len(suffix) + 1, Len(text)) = suffix

\* '(edited)' and '(edited message)'
EditedSuffixes == {Tail(EditedText), Tail(EditedMessageText)}

HasEditedSuffix(body) == \E suffix \in EditedSuffixes : EndsWithText(body, suffix)

\* the trimmed body without the edit suffix it ends with, or as it is
WithoutEditedSuffix(body) ==
  IF EndsWithText(body, Tail(EditedMessageText))
  THEN SubSeq(body, 1, Len(body) - Len(Tail(EditedMessageText)))
  ELSE IF EndsWithText(body, Tail(EditedText))
  THEN SubSeq(body, 1, Len(body) - Len(Tail(EditedText)))
  ELSE body

\* C25: after finalization a message has is_edited true exactly when its
\* trimmed body ends with '(edited)' or '(edited message)', and, for a body
\* without an attachment token, its content is the trimmed body without that
\* suffix (white space before the suffix aside) and the whole trimmed body
\* when it has no such suffix.
C25_EditedSuffixOnly ==
  ppc \in {"parsed", "done"} =>
    \A k \in 1..Len(messages) :
      /\ messages[k].is_edited = HasEditedSuffix(JoinedBody(messages[k]))
      /\ AttachedStarts(JoinedBody(messages[k]), 0) = {}
         => Strip(messages[k].content) = Strip(WithoutEditedSuffix(JoinedBody(messages[k])))

\* the messages of the list that line n opened
EmittedFrom(n) == {k \in 1..Len(messages) : messages[k].line_number = n}

\* how many messages line n can open: one for a header line, one for each
\* embedded header otherwise
OpenedBy(n) ==
  IF is_new_message(parse_lines[n]) THEN 1 ELSE Len(EmbeddedHeaders(parse_lines[n]))

\* the message opened by line n is open
OpenFrom(n) == current_message # <<>> /\ current_message[1].line_number = n

\* the function has returned, with the message of header line n once in the
\* list and its content computed
EmittedOnce(n) ==
  /\ ppc = "done"
  /\ Cardinality(EmittedFrom(n)) = 1
  /\ \A k \in EmittedFrom(n) : messages[k].content # None

\* the open message stops being the open one in this step: the next header
\* line or a line with embedded headers has arrived
Closes ==
  /\ current_message # <<>>
  /\ \/ current_message' = <<>>
     \/ current_message'[1].line_number # current_message[1].line_number

\* C26: every message opened is emitted exactly once and finalized exactly
\* once: the list only grows, and when the last line is read no line has
\* more messages in it than it opened; the step in which the next header
\* line or a line with embedded headers arrives appends the open message; a
\* content once computed is not computed again; and a message that is open
\* is eventually, when the function has returned, in the list exactly once
\* with its content computed.
C26_EmittedOnce ==
  /\ [][/\ Len(messages') >= Len(messages)
        /\ \A k \in 1..Len(messages) :
             messages'[k].line_number = messages[k].line_number]_vars
  /\ [](ppc = "post" =>
         \A n \in 1..Len(parse_lines) : Cardinality(EmittedFrom(n)) <= OpenedBy(n))
  /\ [][Closes =>
         /\ Len(messages') > Len(messages)
         /\ messages'[Len(messages) + 1].line_number = current_message[1].line_number
         /\ SubSeq(messages'[Len(messages) + 1].content_lines, 1,
                   Len(current_message[1].content_lines))
              = current_message[1].content_lines]_vars
  /\ [][\A k \in 1..Len(messages) :
          messages[k].content # None => messages'[k].content = messages[k].content]_vars
  /\ \A n \in 1..MaxLines : OpenFrom(n) ~> EmittedOnce(n)

\* the function has returned the messages of three lines: the message of
\* the first line was closed by the second line, which has embedded headers,
\* and the message of the third line was open at the end of the input
C26_Witness ==
  /\ ppc = "done"
  /\ Len(parse_lines) = 3
  /\ is_new_message(parse_lines[1]) /\ EmittedFrom(1) # {}
  /\ ~is_new_message(parse_lines[2]) /\ EmittedFrom(2) # {}
  /\ is_new_message(parse_lines[3]) /\ EmittedFrom(3) # {}
  /\ \A k \in 1..Len(messages) : messages[k].content # None

\* messages j and k are of the same day
SameDay(j, k) ==
  /\ messages[j].timestamp.ok /\ messages[k].timestamp.ok
  /\ DateOf(messages[j].timestamp) = DateOf(messages[k].timestamp)

\* the files that map to the day of message k and are unused when its own
\* media has been written, in the order of the list of files
UnusedOfDay(k) ==
  SelectSeq(media_files,
            LAMBDA file : /\ OnDayOf(k, file)
                          /\ file \notin TakenBefore(k)
                          /\ file # messages[k].media)

\* C27: a message with a media token is given, for its date, every file that
\* maps to its day and is still unused, in the order of the list of files,
\* and a later message of the same day is given no file for its date.
C27_TokenTakesAll ==
  \A k \in 1..Len(html) :
    messages[k].media # None
    => /\ GivenByDate(k) = UnusedOfDay(k)
       /\ \A j \in (k + 1)..Len(html) : SameDay(j, k) => GivenByDate(j) = <<>>

\* a message with a token has been given two files for its date, and a later
\* message of the same day has been reached
C27_Witness ==
  \E k \in 1..Len(html) :
    /\ messages[k].media # None
    /\ Len(GivenByDate(k)) >= 2
    /\ \E j \in (k + 1)..Len(html) : SameDay(j, k)

\* parse_timestamp resolves the date and the time in the bracket of the line
ResolvedByAssembler(line) ==
  /\ BracketMatch(line, 0) # {}
  /\ parse_timestamp(StampGroups(line)[1], StampGroups(line)[2]).ok

\* C28: in the text the resolver returns, every later line of a duplicated
\* key whose timestamp parse_timestamp resolves has been rewritten: its key is
\* no longer the key of the first line of the group.
C28_SameTimestampTexts ==
  upc = "done" =>
    \A d \in 1..Len(duplicate_headers) :
      \A i \in 2..Len(duplicate_headers[d].line_numbers) :
        ResolvedByAssembler(UniqueLines[duplicate_headers[d].line_numbers[1] + 1])
        => KeyOf(UniqueLines[duplicate_headers[d].line_numbers[i] + 1])
           # KeyOf(UniqueLines[duplicate_headers[d].line_numbers[1] + 1])

\* msg was opened by a header line of the system grammar
FromSystemBranch(msg) ==
  /\ msg.is_system
  /\ is_new_message(parse_lines[msg.line_number])
  /\ ~Contains(AfterBracket(parse_lines[msg.line_number]), <<":", " ">>)

\* the body of msg holds the deletion notice
HoldsNotice(msg) ==
  \E i \in 1..Len(msg.content_lines) : Contains(msg.content_lines[i], DeletedText)

\* C29: a message with is_deleted true has is_system true: it was opened by
\* a header line of the system grammar, never by a user header or an
\* embedded header; this holds of the open message and of every message in
\* the list.
C29_DeletedIsSystem ==
  /\ \A k \in 1..Len(messages) : messages[k].is_deleted => FromSystemBranch(messages[k])
  /\ \A k \in 1..Len(current_message) :
       current_message[k].is_deleted => FromSystemBranch(current_message[k])

\* the function has returned a user message and a message of an embedded
\* header that hold the deletion notice and are not deleted, and a system
\* message that is deleted
C29_Witness ==
  /\ ppc = "done"
  /\ \E k \in 1..Len(messages) :
       /\ HoldsNotice(messages[k]) /\ ~messages[k].is_deleted
       /\ is_new_message(parse_lines[messages[k].line_number])
  /\ \E k \in 1..Len(messages) :
       /\ HoldsNotice(messages[k]) /\ ~messages[k].is_deleted
       /\ ~is_new_message(parse_lines[messages[k].line_number])
  /\ \E k \in 1..Len(messages) : messages[k].is_deleted /\ messages[k].is_system

\* a step leaves the messages of the list where they are, with their content
\* lines, sender and timestamp
AppendedKept ==
  /\ Len(messages') >= Len(messages)
  /\ \A k \in 1..Len(messages) :
       /\ messages'[k].content_lines = messages[k].content_lines
       /\ messages'[k].sender = messages[k].sender
       /\ messages'[k].timestamp = messages[k].timestamp
       /\ messages'[k].line_number = messages[k].line_number

\* C30: at most one message is open; no step changes the content lines, the
\* sender or the timestamp of a message that is in the list; and the messages
\* of the list are in non-decreasing order of their line numbers.
C30_AssemblerInvariants ==
  /\ [](Len(current_message) <= 1 /\ InLineOrder)
  /\ [][AppendedKept]_vars

\* the function has returned two messages of three lines: the first was in
\* the list when the third line, a continuation line, was added to the second
C30_Witness ==
  /\ ppc = "done"
  /\ Len(parse_lines) = 3 /\ Len(messages) = 2
  /\ messages[1].line_number = 1 /\ messages[1].from_lines = <<1>>
  /\ messages[2].line_number = 2 /\ messages[2].from_lines = <<2, 3>>


====
